---- MODULE Spec2Model ----
(***************************************************************************)
(* dioxus-shareables: the reactive cell (shared::Link), the subscription   *)
(* handle (shared::Shared) and the operations on them.                     *)
(*                                                                         *)
(* A cell is a value slot plus a listener registry, a map from subscriber  *)
(* id to (count, callback).  A handle points at a cell, carries an         *)
(* optional subscriber id and a type-level capability tag.                 *)
(***************************************************************************)
EXTENDS Naturals, Integers, Sequences, FiniteSets, TLC

\* ---------------------------------------------------------------- bounds
NumCells == 2
NumIds == 2
MaxVal == 1
MaxHandles == 2
NumThreads == 1
MaxCount == 2
NumWorkers == 2
NumRecords == 1
MaxViews == 2
NumOwners == 2
MaxPtrs == 3
MaxHeld == 1
MaxMaps == 2
NumLCells == 4
MaxLen == 2
MaxKept == 1
NumListScopes == 1

Cells == 1..NumCells
Ids == 1..NumIds
Vals == 0..MaxVal
Threads == 1..NumThreads
Workers == 1..NumWorkers
\* the statics: one per shareable! cell, one per static record type
Records == (NumCells + 1)..(NumCells + NumRecords)
Globals == Cells \cup Records

\* Option<usize>::None for a handle id; also: no thread, no value read
None == 0

VARIABLES
    opt,        \* Shareable<T>.0 per cell: TRUE when Some(link)
    value,      \* Link.0 per cell: the value slot
    listeners,  \* Link.1 per cell: LinkUpdateMap, id -> [count, cb]
    guard,      \* per cell: the thread holding the RwLockWriteGuard, or None
    underflow,  \* TRUE once `*c -= 1` ran on a count of 0
    handles,    \* live Shared<T, B> values: how many of each [cell, id, tag]
    pc,         \* per thread: number of steps done of the call in progress
    call,       \* per thread: the call in progress and the handle it borrows
    calls,      \* per scope: runs of its update callback in the latest needs_update
    net,        \* per cell and id: add_listener calls minus drop_listener calls
                \* made by handles (construction, clone, drop)
    removed,    \* <<cell, id>>: drop_listener removed the entry, not re-added since
    lastOp,     \* the latest operation: see Op
    readers,    \* per cell: the threads holding a RwLockReadGuard on Link.0
    reglock,    \* per cell: the RwLock of Link.1, its writer and its readers
    frame,      \* per worker thread: the call it is in, its position and locals
    mutex,      \* per global: the thread holding the static Mutex, or None
    built,      \* per global: instances its initialiser has built
    slot,       \* per global: the instance the static holds, 0 when None
    fl,         \* the markers a type-level function is applied to, and its result
    ty,         \* the action terms a type-level function is applied to, and its result
    content,    \* per field path of the static record: its Link, value and registry
    views,      \* per view slot: the Struct<Actions> value held there, if any
    vlast,      \* the latest operation on a view and what it returned
    panicked,   \* TRUE once an unwrap of a field accessor met None
    owner,      \* per allocation: the std::sync::Arc behind ArcMap.outer
    ptr,        \* per pointer slot: the ArcMap held there, if any
    store,      \* per location: the value stored there
    lcells,     \* per list cell: the Arc of a ListEntry, its count and its Link
    list,       \* List.0: the Vec of ListEntry, as the cells they point at
    lkept,      \* per list cell: the ListEntry clones and RW handles held
                \* outside the list
    lfired,     \* the scopes whose callback the latest list operation ran
    ini,        \* the initialiser list a record content is built from, and
                \* the content built
    nm          \* two marker names, and the const values derived from them

\* the state of the pointers, and of the lists
arc_state == <<owner, ptr, store>>
list_state == <<lcells, list, lkept, lfired>>
\* the state of the record initialisers and of the name encoding
macro_state == <<ini, nm>>
rest == <<arc_state, list_state, macro_state>>

\* the state of the action terms, views, pointers and lists
more == <<ty, content, views, vlast, panicked, rest>>

\* the state of the calls that run lock by lock, of the statics and of the
\* type-level functions
ext == <<readers, reglock, frame, mutex, built, slot, fl, more>>

vars == <<opt, value, listeners, guard, underflow, handles, pc, call, calls,
          net, removed, lastOp, readers, reglock, frame, mutex, built, slot, fl,
          ty,
          content,
          views,
          vlast,
          panicked,
          owner, ptr, store,
          lcells, list, lkept, lfired,
          ini, nm>>

\* ------------------------------------------------------------- callbacks
\* cx.schedule_update() of scope s: marks component s as needing update
Updater(s) == [kind |-> "update", scope |-> s]
\* the placeholder closure Clone passes to add_listener: Arc::new(|| {})
Noop == [kind |-> "noop", scope |-> None]

\* ------------------------------------------------------------ Link (cell)
EmptyMap == [k \in {} |-> [count |-> 0, cb |-> Noop]]

\* Link::new: the value and an empty registry
Link_new(t) == [value |-> t, listeners |-> EmptyMap]

\* variant: the entry takes the callback of every registration
add_listener_replaces_callback(reg, id, f) ==
    LET e == IF id \in DOMAIN reg THEN reg[id] ELSE [count |-> 0, cb |-> f]
    IN  [k \in DOMAIN reg \cup {id} |->
            IF k = id THEN [count |-> e.count + 1, cb |-> f] ELSE reg[k]]

\* Link::add_listener: entry(id).or_insert_with(|| (0, f)).0 += 1
add_listener(reg, id, f) ==
    LET e == IF id \in DOMAIN reg THEN reg[id] ELSE [count |-> 0, cb |-> f]
    IN  [k \in DOMAIN reg \cup {id} |->
            IF k = id THEN [e EXCEPT !.count = @ + 1] ELSE reg[k]]

\* Link::drop_listener, the decrement: Some((c, _)) => { *c -= 1; *c }, else 1
\* (on a count of 0 the usize wraps to a non-zero value: here -1)
drop_count(reg, id) ==
    IF id \in DOMAIN reg THEN reg[id].count - 1 ELSE 1

\* Link::drop_listener, `*c -= 1` on a count of 0 underflows usize
drop_underflows(reg, id) == id \in DOMAIN reg /\ reg[id].count = 0

\* variant: the entry stays in the map when its count reaches 0
drop_listener_keeps_entry(reg, id) ==
    IF id \in DOMAIN reg
    THEN [reg EXCEPT ![id].count = drop_count(reg, id)]
    ELSE reg

\* variant: the count is looked up with entry(id).or_insert, so an absent id
\* gets an entry of count 0 that is then decremented
drop_listener_via_entry(reg, id) ==
    LET q == [k \in DOMAIN reg \cup {id} |->
                IF k \in DOMAIN reg THEN reg[k] ELSE [count |-> 0, cb |-> Noop]]
        c == q[id].count - 1
    IN  IF c = 0
        THEN [k \in DOMAIN q \ {id} |-> q[k]]
        ELSE [q EXCEPT ![id].count = c]

\* Link::drop_listener: decrement, and remove the entry when it reaches 0
drop_listener(reg, id) ==
    LET c == drop_count(reg, id)
        p == IF id \in DOMAIN reg
             THEN [reg EXCEPT ![id].count = c]
             ELSE reg
    IN  IF c = 0
        THEN [k \in DOMAIN p \ {id} |-> p[k]]
        ELSE p

\* variant: an entry is notified only when more than one handle holds it
notified_count_above_one(reg) == {k \in DOMAIN reg : reg[k].count > 1}

\* Link::needs_update, the filter: entries whose count is > 0
notified(reg) == {k \in DOMAIN reg : reg[k].count > 0}

\* Link::needs_update: u() for every filtered entry; the effect of the
\* callbacks is counted per scope marked as needing update
needs_update(reg) ==
    [s \in Ids |->
        Cardinality({k \in notified(reg) : reg[k].cb = Updater(s)})]

\* ------------------------------------------------- Shared (the handle)
\* variant: READ is true for every marker
READ_for_every_flag(B) == B \in {"W", "RW"}

\* sealed::Flag::READ: false for W, true for RW
READ(B) == B = "RW"

\* the capability markers of a field: (), W, RW
Flags == {"none", "W", "RW"}

\* variant: the impls read in the other direction, G: ImpliesFlag<F>
ImpliesFlag_reversed(F, G) ==
    \/ F = "none"
    \/ G = "W" /\ F = "W"
    \/ G = "RW" /\ F = "W"
    \/ G = "RW" /\ F = "RW"

\* variant: an impl ImpliesFlag<RW> for W beside the others
ImpliesFlag_W_implies_RW(F, G) ==
    \/ G = "none"
    \/ F = "W" /\ G = "W"
    \/ F = "RW" /\ G = "W"
    \/ F = "RW" /\ G = "RW"
    \/ F = "W" /\ G = "RW"

\* sealed::ImpliesFlag: every flag implies (), W implies W, RW implies W and RW
ImpliesFlag(F, G) ==
    \/ G = "none"
    \/ F = "W" /\ G = "W"
    \/ F = "RW" /\ G = "W"
    \/ F = "RW" /\ G = "RW"

\* Shared<T, B>: link (the cell pointed at), id, and the marker B
Shared(c, i, B) == [cell |-> c, id |-> i, tag |-> B]
NoHandle == Shared(None, None, "none")
HandleKinds ==
    {Shared(c, None, "W") : c \in Cells}
    \cup {Shared(c, i, B) : c \in Cells, i \in Ids, B \in {"W", "RW"}}

\* Shared::from_link: the link, id None
from_link(c) == Shared(c, None, "W")

\* Shared::from_shareable, the cell: the stored link when opt is Some, else
\* a new Link holding f()
from_shareable_link(o, link, t) == IF o THEN link ELSE Link_new(t)

\* Shared::init_with_listener, the registry: add_listener(id, updater) if B::READ
init_with_listener_reg(reg, i, B) ==
    IF READ(B) THEN add_listener(reg, i, Updater(i)) ELSE reg

\* Shared::init_with_listener, the handle: r.id = Some(id) if B::READ
init_with_listener(c, i, B) ==
    Shared(c, IF READ(B) THEN i ELSE None, B)

\* variant: a clone copies link and id and registers nothing
clone_reg_registers_nothing(reg, h) == reg

\* Clone for Shared, the registry: add_listener(id, || {}) if self.id is Some
clone_reg(reg, h) ==
    IF h.id # None THEN add_listener(reg, h.id, Noop) ELSE reg

\* Clone for Shared<T, B>, the copy: the same link and id.  B is the marker
\* of the reference cloned: the handle's own, or the one a view widened by
\* as_ref / with_actions gives it
clone(h, B) == Shared(h.cell, h.id, B)

\* variant: a drop leaves the registry alone
drop_reg_leaves_entry(reg, h) == reg

\* variant: a drop goes by the marker B and not by the id
drop_reg_by_flag(reg, h) ==
    IF READ(h.tag) /\ h.id # None THEN drop_listener(reg, h.id) ELSE reg

\* Drop for Shared, the registry: drop_listener(id) if self.id is Some
drop_reg(reg, h) ==
    IF h.id # None THEN drop_listener(reg, h.id) ELSE reg

\* Drop for Shared, the case in which `*c -= 1` underflows
drop_flags_underflow(reg, h) == h.id # None /\ drop_underflows(reg, h.id)

\* ------------------------------------------------------------- helpers
\* the number of live handles
NumLive ==
    Cardinality({p \in HandleKinds \X (1..MaxHandles) : p[2] <= handles[p[1]]})
Live(h) == h \in HandleKinds /\ handles[h] > 0
\* borrows of h by calls in progress
Borrowed(h) == Cardinality({t \in Threads : call[t].h = h})
\* lastOp: a call on the Link by name with its id, a read with the value it
\* returned, a store with the value stored, any other call on a handle
Op(name, ret) == [op |-> name, ret |-> ret]
Called == Op("call", None)
Idle == [name |-> "idle", h |-> NoHandle]

\* a worker thread between two calls.  op: the call; at: the position in
\* it; arg: the value or id passed; f: the function passed to set_with;
\* upd: the value to store; todo: the entries needs_update's iterator has
\* yet to yield; cb: the id whose callback body is running; ran: runs of
\* each id's callback in this call; got: what a borrow or a static returned;
\* silentBefore: the worker's previous call was write_silent
IdleFrame ==
    [op |-> "idle", at |-> "idle", arg |-> None, f |-> "none", upd |-> None,
     todo |-> {}, cb |-> None, ran |-> [i \in Ids |-> 0], got |-> {},
     silentBefore |-> FALSE]

\* no type-level function applied
NoFlags ==
    [a |-> "none", b |-> "none", c |-> "none", f |-> "none", out |-> "none",
     holds |-> FALSE]

\* ---------------------------------------------------------------- Init
\* no cell, no handle, no call in progress
InitHandles ==
    /\ opt = [c \in Cells |-> FALSE]
    /\ value = [c \in Cells |-> None]
    /\ listeners = [c \in Cells |-> EmptyMap]
    /\ guard = [c \in Cells |-> None]
    /\ underflow = FALSE
    /\ handles = [h \in HandleKinds |-> 0]
    /\ pc = [t \in Threads |-> 0]
    /\ call = [t \in Threads |-> Idle]
    /\ calls = [s \in Ids |-> 0]
    /\ net = [c \in Cells |-> [i \in Ids |-> 0]]
    /\ removed = {}
    /\ lastOp = Op("new", None)

\* every lock free, every worker between calls
InitLocks ==
    /\ readers = [c \in Cells |-> {}]
    /\ reglock = [c \in Cells |-> [w |-> None, r |-> {}]]
    /\ frame = [t \in Workers |-> IdleFrame]

\* static Mutex::new(Shareable::new()), Mutex::new(None)
InitStatics ==
    /\ mutex = [g \in Globals |-> None]
    /\ built = [g \in Globals |-> 0]
    /\ slot = [g \in Globals |-> None]

\* the action (): no field, no sub-record
Unit == [k |-> "unit", x |-> None, y |-> None]

\* the sub-records of the static record, and its field paths: the fields
\* of the record itself ("top") and of each sub-record
Subs == {"u"}
Paths == [u : {"top"} \cup Subs, f : Cells]

\* a field of a view that is None: a handle of no cell
NoField == Shared([u |-> "none", f |-> None], None, "none")

\* impl Default for $StructContent: Link::new($finit) for every field
DefaultContent == [p \in Paths |-> Link_new(None)]

\* the slots a component holds views in
ViewIds == 1..MaxViews

\* an empty slot; in a view every field is Option<Shared<_, _>>, None here
NoView ==
    [live |-> FALSE, act |-> Unit, id |-> None, seen |-> Unit,
     fields |-> [p \in Paths |-> NoField]]

\* no operation on a view yet
NoLast ==
    [op |-> "none", v |-> None, h |-> NoField, used |-> None, undo |-> FALSE,
     before |-> [p \in Paths |-> EmptyMap]]

\* the allocations an Arc can live in, the slots the program holds
\* ArcMaps in, and the fields of the owner's value
OwnerIds == 1..NumOwners
PtrIds == 1..MaxPtrs
Fields == {"a", "b"}

\* what a pointer can point at: an owner's value ("top"), a field of it, or
\* a static (owner None) that a projection returns whatever it is given
StaticLoc == [o |-> None, at |-> "static"]
Locations ==
    [o : OwnerIds, at : {"top"} \cup Fields] \cup {StaticLoc}

\* an allocation that holds no Arc: strong count 0, the value dropped
NoOwner == [count |-> 0, alloc |-> FALSE, held |-> 0]

\* an empty pointer slot
NoPtr ==
    [live |-> FALSE, of |-> "none", outer |-> None, inner |-> StaticLoc,
     hist |-> <<>>]

\* the allocations a ListEntry's cell can live in
LCells == 1..NumLCells

\* the scopes of the components that use entries of the list
ListScopes == 1..NumListScopes

\* an allocation that holds no cell
NoCell == [alloc |-> FALSE, count |-> 0, link |-> Link_new(None)]

\* nothing outside the list refers to the cell
NoKept == [entry |-> 0, rw |-> {}, w |-> 0]

\* no action term resolved
NoTy == [fn |-> "none", a |-> Unit, b |-> Unit, out |-> Unit]

\* no view, no pointer, no list
\* no initialiser list given, no name encoded
NoIni == [list |-> <<>>, op |-> "none", out |-> <<>>]
NoNames == [a |-> <<>>, b |-> <<>>, op |-> "none", va |-> <<>>, vb |-> <<>>]

InitStructs ==
    /\ content = DefaultContent
    /\ views = [v \in ViewIds |-> NoView]
    /\ vlast = NoLast
    /\ panicked = FALSE
    /\ owner = [o \in OwnerIds |-> NoOwner]
    /\ ptr = [p \in PtrIds |-> NoPtr]
    /\ store = [l \in Locations |-> None]
    /\ lcells = [c \in LCells |-> NoCell]
    /\ list = <<>>
    /\ lkept = [c \in LCells |-> NoKept]
    /\ lfired = {}

InitRest ==
    /\ InitStructs
    /\ ini = NoIni
    /\ nm = NoNames

\* nothing resolved, no view, no pointer, no list
InitMore ==
    /\ ty = NoTy
    /\ InitRest

Init ==
    /\ InitHandles
    /\ InitLocks
    /\ InitStatics
    /\ fl = NoFlags
    /\ InitMore

\* bookkeeping of the calls a handle operation makes on cell c: n calls of
\* add_listener(i) (n < 0: of drop_listener), and the entries removed
Made(c, i, n) ==
    /\ net' = IF i = None THEN net ELSE [net EXCEPT ![c][i] = @ + n]
    /\ removed' =
        {p \in removed \cup {<<c, k>> : k \in DOMAIN listeners[c]} :
            p[1] = c => p[2] \notin DOMAIN listeners'[c]}

\* ------------------------------------------------- handle construction
\* the cell c as a Link value
LinkOf(c) == [value |-> value[c], listeners |-> listeners[c]]

\* Shared::init (Static::_use_rw, _use_w of a shareable! global): the cell
\* is created with f() = t on first use, then init_with_listener
Use(c, i, B, t) ==
    /\ LET link == from_shareable_link(opt[c], LinkOf(c), t)
           h == init_with_listener(c, i, B)
       IN  /\ handles' = [handles EXCEPT ![h] = @ + 1]
           /\ NumLive < MaxHandles
           /\ opt' = [opt EXCEPT ![c] = TRUE]
           /\ value' = [value EXCEPT ![c] = link.value]
           /\ listeners' =
                [listeners EXCEPT ![c] = init_with_listener_reg(link.listeners, i, B)]
           /\ Made(c, h.id, 1)
    /\ lastOp' = Called
    /\ UNCHANGED <<guard, underflow, pc, call, calls>>
    /\ UNCHANGED ext

\* sealed::StructFlag::_init on the link of a field: None for (), else
\* init_with_listener on Shareable(Some(link))
StructInit(c, i, F) ==
    /\ opt[c]
    /\ F \in Flags
    /\ IF F = "none"
       THEN UNCHANGED <<listeners, handles, net, removed>>
       ELSE /\ handles' = [handles EXCEPT ![init_with_listener(c, i, F)] = @ + 1]
            /\ NumLive < MaxHandles
            /\ listeners' =
                 [listeners EXCEPT ![c] = init_with_listener_reg(listeners[c], i, F)]
            /\ Made(c, init_with_listener(c, i, F).id, 1)
    /\ lastOp' = Called
    /\ UNCHANGED <<opt, value, guard, underflow, pc, call, calls>>
    /\ UNCHANGED ext

\* Static::_share of a shareable! global: Shared::from_shareable
Share(c, t) ==
    /\ NumLive < MaxHandles
    /\ LET link == from_shareable_link(opt[c], LinkOf(c), t)
       IN  /\ opt' = [opt EXCEPT ![c] = TRUE]
           /\ value' = [value EXCEPT ![c] = link.value]
           /\ listeners' = [listeners EXCEPT ![c] = link.listeners]
           /\ handles' = [handles EXCEPT ![from_link(c)] = @ + 1]
    /\ lastOp' = Called
    /\ UNCHANGED <<guard, underflow, pc, call, calls, net, removed>>
    /\ UNCHANGED ext

\* Shared::from_link on an existing link (ListEntry::share, List::pop, ...)
FromLink(c) ==
    /\ opt[c]
    /\ NumLive < MaxHandles
    /\ handles' = [handles EXCEPT ![from_link(c)] = @ + 1]
    /\ lastOp' = Called
    /\ UNCHANGED <<opt, value, listeners, guard, underflow, pc, call, calls,
                   net, removed>>
    /\ UNCHANGED ext

\* Clone for Shared<T, B>, on the handle or on a view of it widened to B
Clone(h, B) ==
    /\ Live(h)
    /\ B \in {"W", "RW"}
    /\ ImpliesFlag(h.tag, B)
    /\ NumLive < MaxHandles
    /\ listeners' = [listeners EXCEPT ![h.cell] = clone_reg(listeners[h.cell], h)]
    /\ handles' = [handles EXCEPT ![clone(h, B)] = @ + 1]
    /\ Made(h.cell, h.id, 1)
    /\ lastOp' = Called
    /\ UNCHANGED <<opt, value, guard, underflow, pc, call, calls>>
    /\ UNCHANGED ext

\* Drop for Shared: a handle no call in progress borrows
Drop(h) ==
    /\ Live(h)
    /\ handles[h] > Borrowed(h)
    /\ listeners' = [listeners EXCEPT ![h.cell] = drop_reg(listeners[h.cell], h)]
    /\ underflow' = (underflow \/ drop_flags_underflow(listeners[h.cell], h))
    /\ handles' = [handles EXCEPT ![h] = @ - 1]
    /\ Made(h.cell, h.id, -1)
    /\ lastOp' = Called
    /\ UNCHANGED <<opt, value, guard, pc, call, calls>>
    /\ UNCHANGED ext

\* ------------------------------------------------------ reads and writes
\* Shared::write: needs_update, then borrow_mut; the caller then stores
\* through the guard and lets it go
write_order == <<"needs_update", "borrow_mut", "store">>
\* Shared::write_silent: borrow_mut; the caller stores and lets the guard go
write_silent_order == <<"borrow_mut", "store">>
Order(name) == IF name = "write" THEN write_order ELSE write_silent_order
Writes == {"write", "write_silent"}

\* thread t is at step s of call `name` on handle h (or starts that call)
AtStep(t, h, name, s) ==
    /\ IF pc[t] = 0
       THEN call[t] = Idle /\ Live(h)
       ELSE call[t] = [name |-> name, h |-> h]
    /\ Order(name)[pc[t] + 1] = s

Advance(t, h, name) ==
    LET last == pc[t] + 1 = Len(Order(name))
    IN  /\ pc' = [pc EXCEPT ![t] = IF last THEN 0 ELSE pc[t] + 1]
        /\ call' = [call EXCEPT ![t] =
                        IF last THEN Idle ELSE [name |-> name, h |-> h]]

\* variant: the callbacks of every cell's registry run
WriteNeedsUpdate_every_cell(t, h, name) ==
    /\ AtStep(t, h, name, "needs_update")
    /\ calls' = [s \in Ids |->
                    IF \E c \in Cells : needs_update(listeners[c])[s] > 0
                    THEN 1 ELSE 0]
    /\ Advance(t, h, name)
    /\ lastOp' = Called
    /\ UNCHANGED <<opt, value, listeners, guard, underflow, handles,
                   net, removed>>
    /\ UNCHANGED ext

\* self.link.needs_update() inside Shared::write
WriteNeedsUpdate(t, h, name) ==
    /\ AtStep(t, h, name, "needs_update")
    /\ calls' = needs_update(listeners[h.cell])
    /\ Advance(t, h, name)
    /\ lastOp' = Called
    /\ UNCHANGED <<opt, value, listeners, guard, underflow, handles,
                   net, removed>>
    /\ UNCHANGED ext

\* self.link.borrow_mut(): the write lock of the value slot
WriteBorrowMut(t, h, name) ==
    /\ AtStep(t, h, name, "borrow_mut")
    /\ guard[h.cell] = None
    /\ guard' = [guard EXCEPT ![h.cell] = t]
    /\ Advance(t, h, name)
    /\ lastOp' = Called
    /\ UNCHANGED <<opt, value, listeners, underflow, handles, calls,
                   net, removed>>
    /\ UNCHANGED ext

\* `*guard = v`, and the guard is dropped
WriteStore(t, h, name, v) ==
    /\ AtStep(t, h, name, "store")
    /\ guard[h.cell] = t
    /\ value' = [value EXCEPT ![h.cell] = v]
    /\ guard' = [guard EXCEPT ![h.cell] = None]
    /\ Advance(t, h, name)
    /\ lastOp' = Op("store", v)
    /\ UNCHANGED <<opt, listeners, underflow, handles, calls,
                   net, removed>>
    /\ UNCHANGED ext

\* Shared::needs_update
NeedsUpdate(h) ==
    /\ Live(h)
    /\ calls' = needs_update(listeners[h.cell])
    /\ lastOp' = Called
    /\ UNCHANGED <<opt, value, listeners, guard, underflow, handles, pc, call,
                   net, removed>>
    /\ UNCHANGED ext

\* Shared::read: the read lock of the value slot, and the value under it
Read(h) ==
    /\ Live(h)
    /\ guard[h.cell] = None
    /\ lastOp' = Op("read", value[h.cell])
    /\ UNCHANGED <<opt, value, listeners, guard, underflow, handles, pc, call, calls,
                   net, removed>>
    /\ UNCHANGED ext

Next ==
    \/ \E c \in Cells, i \in Ids, B \in {"W", "RW"}, t \in Vals : Use(c, i, B, t)
    \/ \E c \in Cells, i \in Ids, F \in Flags : StructInit(c, i, F)
    \/ \E c \in Cells, t \in Vals : Share(c, t)
    \/ \E c \in Cells : FromLink(c)
    \/ \E h \in HandleKinds, B \in {"W", "RW"} : Clone(h, B)
    \/ \E h \in HandleKinds : Drop(h)
    \/ \E t \in Threads, h \in HandleKinds : WriteNeedsUpdate(t, h, "write")
    \/ \E t \in Threads, h \in HandleKinds, name \in Writes : WriteBorrowMut(t, h, name)
    \/ \E t \in Threads, h \in HandleKinds, name \in Writes, v \in Vals :
            WriteStore(t, h, name, v)
    \/ \E h \in HandleKinds : NeedsUpdate(h)
    \/ \E h \in HandleKinds : Read(h)

Spec == Init /\ [][Next]_vars

\* ---------------------------------------------- the Link, called directly
\* the Link whose methods are called, and the callbacks the crate passes
\* for id i: the scope's updater (init_with_listener), the no-op (clone)
TheLink == CHOOSE c \in Cells : TRUE
Callbacks(i) == {Updater(i), Noop}

LinkAddListener(c, i, f) ==
    /\ i \in DOMAIN listeners[c] => listeners[c][i].count < MaxCount
    /\ listeners' = [listeners EXCEPT ![c] = add_listener(listeners[c], i, f)]
    /\ removed' = removed \ {<<c, i>>}
    /\ lastOp' = Op("add_listener", i)
    /\ UNCHANGED <<opt, value, guard, underflow, handles, pc, call, calls, net>>
    /\ UNCHANGED ext

LinkDropListener(c, i) ==
    /\ listeners' = [listeners EXCEPT ![c] = drop_listener(listeners[c], i)]
    /\ underflow' = (underflow \/ drop_underflows(listeners[c], i))
    /\ removed' = IF i \in DOMAIN listeners[c] \ DOMAIN listeners'[c]
                  THEN removed \cup {<<c, i>>}
                  ELSE removed
    /\ lastOp' = Op("drop_listener", i)
    /\ UNCHANGED <<opt, value, guard, handles, pc, call, calls, net>>
    /\ UNCHANGED ext

LinkNeedsUpdate(c) ==
    /\ calls' = needs_update(listeners[c])
    /\ lastOp' = Op("needs_update", None)
    /\ UNCHANGED <<opt, value, listeners, guard, underflow, handles, pc, call,
                   net, removed>>
    /\ UNCHANGED ext

NextLink ==
    \/ \E i \in Ids : \E f \in Callbacks(i) : LinkAddListener(TheLink, i, f)
    \/ \E i \in Ids : LinkDropListener(TheLink, i)
    \/ LinkNeedsUpdate(TheLink)

SpecLink == Init /\ [][NextLink]_vars

\* ------------------------------------------ calls on a cell, lock by lock
\* Worker threads call on handles of the cell TheLink; every step is one
\* acquisition or release of a lock of the Link with the work done under it.

\* the functions handed to set_with
Fns == {"succ", "same"}
Apply(f, x) == IF f = "succ" THEN (x + 1) % (MaxVal + 1) ELSE x

\* variant: a read guard is handed out while the write guard is held
value_read_free_ignores_writer(c) == c \in Cells

\* RwLock::read / RwLock::write of Link.0 (the value) can be taken
value_read_free(c) == guard[c] = None
value_write_free(c) == guard[c] = None /\ readers[c] = {}
\* RwLock::read / RwLock::write of Link.1 (the registry) can be taken
reg_read_free(c) == reglock[c].w = None
\* variant: one lock guards the value and the registry
reg_write_free_one_lock(c) ==
    /\ reglock[c].w = None /\ reglock[c].r = {}
    /\ guard[c] = None /\ readers[c] = {}

reg_write_free(c) == reglock[c].w = None /\ reglock[c].r = {}

\* variant: write_silent goes through needs_update as write does
First_silent_notifies(op) ==
    CASE op = "read" -> "borrow"
      [] op \in {"write", "write_silent"} -> "needs_update"
      [] op = "set" -> "set_check"
      [] op = "set_with" -> "set_with_check"
      [] op \in {"add_listener", "drop_listener"} -> "reg_write"

\* the first step of each call
First(op) ==
    CASE op = "read" -> "borrow"
      [] op = "write_silent" -> "borrow_mut"
      [] op = "write" -> "needs_update"
      [] op = "set" -> "set_check"
      [] op = "set_with" -> "set_with_check"
      [] op \in {"add_listener", "drop_listener"} -> "reg_write"

\* worker t enters call op
Begin(t, op, arg, f) ==
    [IdleFrame EXCEPT !.op = op, !.at = First(op), !.arg = arg, !.f = f,
                      !.upd = arg,
                      !.silentBefore = (op = "write" /\ frame[t].op = "write_silent")]

\* the calls a worker between calls can enter
Starts(t) ==
    {Begin(t, "read", None, "none")}
    \cup {Begin(t, op, v, "none") : op \in {"write", "write_silent", "set"}, v \in Vals}
    \cup {Begin(t, "set_with", None, f) : f \in Fns}
    \cup {Begin(t, op, i, "none") : op \in {"add_listener", "drop_listener"}, i \in Ids}

\* the frames with which worker t can take the step `at`: the call it is in,
\* or one it enters
Cur(t, at) ==
    {f \in (IF frame[t].at = "idle" THEN Starts(t) ELSE {frame[t]}) : f.at = at}

\* the call returns: which call it was, and on what, stays to be seen
Finish(f) ==
    [IdleFrame EXCEPT !.op = f.op, !.arg = f.arg, !.f = f.f, !.upd = f.upd]

\* what the lock-by-lock calls leave alone
idle_vars == <<opt, handles, pc, call, calls, net, removed, lastOp,
               mutex, built, slot, fl,
               more>>

\* Shared::read: self.link.borrow(), the guard goes to the caller
Borrow(t) ==
    \E f \in Cur(t, "borrow") :
        /\ value_read_free(TheLink)
        /\ readers' = [readers EXCEPT ![TheLink] = @ \cup {t}]
        /\ frame' = [frame EXCEPT ![t] =
                        [f EXCEPT !.at = "release", !.got = {value[TheLink]}]]
        /\ UNCHANGED <<value, listeners, guard, underflow, reglock>>
        /\ UNCHANGED idle_vars

\* the caller drops the RwLockReadGuard
Release(t) ==
    \E f \in Cur(t, "release") :
        /\ readers' = [readers EXCEPT ![TheLink] = @ \ {t}]
        /\ frame' = [frame EXCEPT ![t] = Finish(f)]
        /\ UNCHANGED <<value, listeners, guard, underflow, reglock>>
        /\ UNCHANGED idle_vars

\* variant: set writes without comparing
SetCheck_writes_always(t) ==
    \E f \in Cur(t, "set_check") :
        /\ value_read_free(TheLink)
        /\ frame' = [frame EXCEPT ![t] = [f EXCEPT !.at = "needs_update"]]
        /\ UNCHANGED <<value, listeners, guard, underflow, readers, reglock>>
        /\ UNCHANGED idle_vars

\* Shared::set: `*self.link.borrow() != t`, the guard dropped with the test
SetCheck(t) ==
    \E f \in Cur(t, "set_check") :
        /\ value_read_free(TheLink)
        /\ frame' = [frame EXCEPT ![t] =
                        IF value[TheLink] # f.arg
                        THEN [f EXCEPT !.at = "needs_update"]
                        ELSE Finish(f)]
        /\ UNCHANGED <<value, listeners, guard, underflow, readers, reglock>>
        /\ UNCHANGED idle_vars

\* variant: set_with goes on to write without dropping prev
SetWithCheck_keeps_prev(t) ==
    \E f \in Cur(t, "set_with_check") :
        /\ value_read_free(TheLink)
        /\ LET updated == Apply(f.f, value[TheLink])
           IN  /\ frame' = [frame EXCEPT ![t] =
                                IF value[TheLink] # updated
                                THEN [f EXCEPT !.at = "needs_update", !.upd = updated]
                                ELSE Finish(f)]
               /\ readers' = [readers EXCEPT ![TheLink] =
                                IF value[TheLink] # updated THEN @ \cup {t} ELSE @]
        /\ UNCHANGED <<value, listeners, guard, underflow, reglock>>
        /\ UNCHANGED idle_vars

\* Shared::set_with: prev = borrow(), updated = f(&prev), the test, and
\* drop(prev) before the write
SetWithCheck(t) ==
    \E f \in Cur(t, "set_with_check") :
        /\ value_read_free(TheLink)
        /\ LET updated == Apply(f.f, value[TheLink])
           IN  frame' = [frame EXCEPT ![t] =
                            IF value[TheLink] # updated
                            THEN [f EXCEPT !.at = "needs_update", !.upd = updated]
                            ELSE Finish(f)]
        /\ UNCHANGED <<value, listeners, guard, underflow, readers, reglock>>
        /\ UNCHANGED idle_vars

\* Link::needs_update: self.1.read(), and the iterator over the filtered map
NeedsUpdateLock(t) ==
    \E f \in Cur(t, "needs_update") :
        /\ reg_read_free(TheLink)
        /\ reglock' = [reglock EXCEPT ![TheLink].r = @ \cup {t}]
        /\ frame' = [frame EXCEPT ![t] =
                        [f EXCEPT !.at = "iterate",
                                  !.todo = notified(listeners[TheLink])]]
        /\ UNCHANGED <<value, listeners, guard, underflow, readers>>
        /\ UNCHANGED idle_vars

\* Link::needs_update: the iterator yields entry k and u() is called
CallListener(t, k) ==
    \E f \in Cur(t, "iterate") :
        /\ k \in f.todo
        /\ frame' = [frame EXCEPT ![t] =
                        [f EXCEPT !.at = "body", !.cb = k, !.todo = @ \ {k}]]
        /\ UNCHANGED <<value, listeners, guard, underflow, readers, reglock>>
        /\ UNCHANGED idle_vars

\* the callback body runs and returns; a body that reads the cell takes and
\* drops the read lock of the value
ListenerReturns(t, reads) ==
    \E f \in Cur(t, "body") :
        /\ reads => value_read_free(TheLink)
        /\ frame' = [frame EXCEPT ![t] =
                        [f EXCEPT !.at = "iterate", !.cb = None,
                                  !.ran[f.cb] = @ + 1,
                                  !.got = IF reads THEN {value[TheLink]} ELSE @]]
        /\ UNCHANGED <<value, listeners, guard, underflow, readers, reglock>>
        /\ UNCHANGED idle_vars

\* Link::needs_update: the loop ends and the read guard of the registry, a
\* temporary of the for expression, is dropped
NeedsUpdateUnlock(t) ==
    \E f \in Cur(t, "iterate") :
        /\ f.todo = {}
        /\ reglock' = [reglock EXCEPT ![TheLink].r = @ \ {t}]
        /\ frame' = [frame EXCEPT ![t] = [f EXCEPT !.at = "borrow_mut", !.got = {}]]
        /\ UNCHANGED <<value, listeners, guard, underflow, readers>>
        /\ UNCHANGED idle_vars

\* Link::borrow_mut: self.0.write()
BorrowMut(t) ==
    \E f \in Cur(t, "borrow_mut") :
        /\ value_write_free(TheLink)
        /\ guard' = [guard EXCEPT ![TheLink] = t]
        /\ frame' = [frame EXCEPT ![t] = [f EXCEPT !.at = "store"]]
        /\ UNCHANGED <<value, listeners, underflow, readers, reglock>>
        /\ UNCHANGED idle_vars

\* `*guard = upd`, and the RwLockWriteGuard is dropped
Store(t) ==
    \E f \in Cur(t, "store") :
        /\ guard[TheLink] = t
        /\ value' = [value EXCEPT ![TheLink] = f.upd]
        /\ guard' = [guard EXCEPT ![TheLink] = None]
        /\ frame' = [frame EXCEPT ![t] = Finish(f)]
        /\ UNCHANGED <<listeners, underflow, readers, reglock>>
        /\ UNCHANGED idle_vars

\* Link::add_listener, Link::drop_listener: self.1.write()
RegWrite(t) ==
    \E f \in Cur(t, "reg_write") :
        /\ reg_write_free(TheLink)
        /\ (f.op = "add_listener" /\ f.arg \in DOMAIN listeners[TheLink])
                => listeners[TheLink][f.arg].count < MaxCount
        /\ reglock' = [reglock EXCEPT ![TheLink].w = t]
        /\ frame' = [frame EXCEPT ![t] = [f EXCEPT !.at = f.op]]
        /\ UNCHANGED <<value, listeners, guard, underflow, readers>>
        /\ UNCHANGED idle_vars

\* Link::add_listener under the write lock of the registry
AddListener(t) ==
    \E f \in Cur(t, "add_listener") :
        /\ reglock[TheLink].w = t
        /\ listeners' = [listeners EXCEPT ![TheLink] =
                            add_listener(@, f.arg, Updater(f.arg))]
        /\ reglock' = [reglock EXCEPT ![TheLink].w = None]
        /\ frame' = [frame EXCEPT ![t] = Finish(f)]
        /\ UNCHANGED <<value, guard, underflow, readers>>
        /\ UNCHANGED idle_vars

\* Link::drop_listener under the write lock of the registry
DropListener(t) ==
    \E f \in Cur(t, "drop_listener") :
        /\ reglock[TheLink].w = t
        /\ listeners' = [listeners EXCEPT ![TheLink] = drop_listener(@, f.arg)]
        /\ underflow' = (underflow \/ drop_underflows(listeners[TheLink], f.arg))
        /\ reglock' = [reglock EXCEPT ![TheLink].w = None]
        /\ frame' = [frame EXCEPT ![t] = Finish(f)]
        /\ UNCHANGED <<value, guard, readers>>
        /\ UNCHANGED idle_vars

\* one step of worker t
Step(t) ==
    \/ Borrow(t)
    \/ Release(t)
    \/ SetCheck(t)
    \/ SetWithCheck(t)
    \/ NeedsUpdateLock(t)
    \/ \E k \in Ids : CallListener(t, k)
    \/ \E reads \in BOOLEAN : ListenerReturns(t, reads)
    \/ NeedsUpdateUnlock(t)
    \/ BorrowMut(t)
    \/ Store(t)
    \/ RegWrite(t)
    \/ AddListener(t)
    \/ DropListener(t)

\* the workers run concurrently
NextLocks == \E t \in Workers : Step(t)
SpecLocks == Init /\ [][NextLocks]_vars

\* the locks of the cell that worker t holds
Held(t) ==
    {"value" : x \in {u \in {t} : u \in readers[TheLink] \/ guard[TheLink] = u}}
    \cup {"registry" : x \in {u \in {t} : u \in reglock[TheLink].r
                                           \/ reglock[TheLink].w = u}}

\* one step of worker t when the callbacks call no operation of the cell
\* and one scope, the first, registers and drops its listener
FairStep(t) ==
    \/ Borrow(t)
    \/ Release(t)
    \/ SetCheck(t)
    \/ SetWithCheck(t)
    \/ NeedsUpdateLock(t)
    \/ \E k \in Ids : CallListener(t, k)
    \/ ListenerReturns(t, FALSE)
    \/ NeedsUpdateUnlock(t)
    \/ BorrowMut(t)
    \/ Store(t)
    \/ RegWrite(t) /\ frame'[t].arg = 1
    \/ AddListener(t)
    \/ DropListener(t)

\* fair scheduling, and locks that serve every thread that keeps asking: a
\* worker whose next step is possible again and again takes it
NextLocksFair == \E t \in Workers : FairStep(t)
SpecLocksFair ==
    /\ Init
    /\ [][NextLocksFair]_vars
    /\ \A t \in Workers : SF_vars(FairStep(t))

\* the workers call nothing but set and set_with, and register listeners
SetCalls == {"set", "set_with", "add_listener"}
\* a step of worker t inside one of these calls
InSetCall(t) == frame'[t].op \in SetCalls
NextSets ==
    \/ \E t \in Workers : SetCheck(t) /\ InSetCall(t)
    \/ \E t \in Workers : SetWithCheck(t) /\ InSetCall(t)
    \/ \E t \in Workers : NeedsUpdateLock(t) /\ InSetCall(t)
    \/ \E t \in Workers, k \in Ids : CallListener(t, k) /\ InSetCall(t)
    \/ \E t \in Workers, reads \in BOOLEAN : ListenerReturns(t, reads) /\ InSetCall(t)
    \/ \E t \in Workers : NeedsUpdateUnlock(t) /\ InSetCall(t)
    \/ \E t \in Workers : BorrowMut(t) /\ InSetCall(t)
    \/ \E t \in Workers : Store(t) /\ InSetCall(t)
    \/ \E t \in Workers : RegWrite(t) /\ InSetCall(t)
    \/ \E t \in Workers : AddListener(t) /\ InSetCall(t)
SpecSets == Init /\ [][NextSets]_vars

\* one worker runs alone: the calls follow one another
Alone == CHOOSE t \in Workers : TRUE
NextSeq == Step(Alone)
SpecSeq == Init /\ [][NextSeq]_vars

\* ------------------------------------------------ statics, first access
\* the accessors of a shareable! global, and of a static record
CellCalls == {"use_rw", "use_w", "share"}
RecordCalls == {"get_static"}

\* the marker of the handle an accessor makes
FlagOf(op) == IF op = "use_rw" THEN "RW" ELSE "W"

\* variant: lock() returns although another thread holds the mutex
mutex_free_never_waits(g) == g \in Globals

\* Mutex::lock returns once no thread holds the mutex
mutex_free(g) == mutex[g] = None

\* what the accesses to the statics leave alone
static_vars == <<guard, underflow, handles, pc, call, calls, net, removed,
                 lastOp, readers, reglock, fl,
               more>>

\* the count of id i in a registry
CountOf(reg, i) == IF i \in DOMAIN reg THEN reg[i].count ELSE 0

\* $IDENT.lock().unwrap() / Self::r#static().lock().unwrap(): the guard
\* lives until the accessor returns
MutexLock(t) ==
    /\ frame[t].at = "idle"
    /\ \E g \in Globals :
        \E op \in IF g \in Cells THEN CellCalls ELSE RecordCalls :
            /\ mutex_free(g)
            /\ op = "use_rw" => CountOf(listeners[g], t) < MaxCount
            /\ mutex' = [mutex EXCEPT ![g] = t]
            /\ frame' = [frame EXCEPT ![t] =
                  [IdleFrame EXCEPT !.op = op, !.arg = g,
                     !.at = IF g \in Cells THEN "from_shareable"
                            ELSE "get_or_insert_with"]]
    /\ UNCHANGED <<opt, value, listeners, built, slot>>
    /\ UNCHANGED static_vars

\* where a cell accessor goes once it has its link
AfterLink(op) == IF op = "share" THEN "unlock" ELSE "init_with_listener"

\* Shared::from_shareable, the test: Some(p) => p.clone(), else create
FromShareable(t) ==
    \E f \in Cur(t, "from_shareable") :
        /\ frame' = [frame EXCEPT ![t] =
              IF slot[f.arg] # None
              THEN [f EXCEPT !.at = AfterLink(f.op), !.f = "clone",
                             !.got = {slot[f.arg]}]
              ELSE [f EXCEPT !.at = "link_new"]]
        /\ UNCHANGED <<opt, value, listeners, mutex, built, slot>>
        /\ UNCHANGED static_vars

\* Shared::from_shareable, the else branch: ArcMap::new(Link::new(f())),
\* opt.0 = Some(r.link.clone())
FromShareableNew(t) ==
    \E f \in Cur(t, "link_new") :
        \E v \in Vals :
            /\ built' = [built EXCEPT ![f.arg] = @ + 1]
            /\ slot' = [slot EXCEPT ![f.arg] = built[f.arg] + 1]
            /\ opt' = [opt EXCEPT ![f.arg] = TRUE]
            /\ value' = [value EXCEPT ![f.arg] = Link_new(v).value]
            /\ listeners' = [listeners EXCEPT ![f.arg] = Link_new(v).listeners]
            /\ frame' = [frame EXCEPT ![t] =
                  [f EXCEPT !.at = AfterLink(f.op), !.f = "new",
                            !.got = {built[f.arg] + 1}]]
            /\ UNCHANGED mutex
            /\ UNCHANGED static_vars

\* Shared::init_with_listener after from_shareable: add_listener when
\* B::READ, with the updater of the caller's scope
InitWithListener(t) ==
    \E f \in Cur(t, "init_with_listener") :
        /\ listeners' =
             IF READ(FlagOf(f.op))
             THEN [listeners EXCEPT ![f.arg] = add_listener(@, t, Updater(t))]
             ELSE listeners
        /\ frame' = [frame EXCEPT ![t] = [f EXCEPT !.at = "unlock"]]
        /\ UNCHANGED <<opt, value, mutex, built, slot>>
        /\ UNCHANGED static_vars

\* Static::get_static, get_or_insert_with: the test, then .clone()
GetOrInsertWith(t) ==
    \E f \in Cur(t, "get_or_insert_with") :
        /\ frame' = [frame EXCEPT ![t] =
              IF slot[f.arg] # None
              THEN [f EXCEPT !.at = "unlock", !.f = "clone",
                             !.got = {slot[f.arg]}]
              ELSE [f EXCEPT !.at = "default"]]
        /\ UNCHANGED <<opt, value, listeners, mutex, built, slot>>
        /\ UNCHANGED static_vars

\* Static::get_static, get_or_insert_with on None: Default::default()
GetOrInsertDefault(t) ==
    \E f \in Cur(t, "default") :
        /\ built' = [built EXCEPT ![f.arg] = @ + 1]
        /\ slot' = [slot EXCEPT ![f.arg] = built[f.arg] + 1]
        /\ frame' = [frame EXCEPT ![t] =
              [f EXCEPT !.at = "unlock", !.f = "new",
                        !.got = {built[f.arg] + 1}]]
        /\ UNCHANGED <<opt, value, listeners, mutex>>
        /\ UNCHANGED static_vars

\* the MutexGuard temporary is dropped when the accessor returns
MutexUnlock(t) ==
    \E f \in Cur(t, "unlock") :
        /\ mutex' = [mutex EXCEPT ![f.arg] = None]
        /\ frame' = [frame EXCEPT ![t] = IdleFrame]
        /\ UNCHANGED <<opt, value, listeners, built, slot>>
        /\ UNCHANGED static_vars

\* the workers access the statics concurrently
NextStatic ==
    \/ \E t \in Workers : MutexLock(t)
    \/ \E t \in Workers : FromShareable(t)
    \/ \E t \in Workers : FromShareableNew(t)
    \/ \E t \in Workers : InitWithListener(t)
    \/ \E t \in Workers : GetOrInsertWith(t)
    \/ \E t \in Workers : GetOrInsertDefault(t)
    \/ \E t \in Workers : MutexUnlock(t)
SpecStatic == Init /\ [][NextStatic]_vars

\* ------------------------------------------------- capability markers
\* variant: the combined marker is the right-hand one
CombineFlag_takes_rhs(A, B) == B

\* sealed::CombineFlag<Rhs>::Combined, impl by impl
CombineFlag(A, B) ==
    CASE A = "none" /\ B = "none" -> "none"
      [] A = "none" /\ B = "W" -> "W"
      [] A = "none" /\ B = "RW" -> "RW"
      [] A = "W" /\ B = "none" -> "W"
      [] A = "W" /\ B = "W" -> "W"
      [] A = "W" /\ B = "RW" -> "RW"
      [] A = "RW" /\ B = "none" -> "RW"
      [] A = "RW" /\ B = "W" -> "RW"
      [] A = "RW" /\ B = "RW" -> "RW"

\* what resolving a marker type leaves alone: everything at run time
flag_vars == <<opt, value, listeners, guard, underflow, handles, pc, call,
               calls, net, removed, lastOp, readers, reglock, frame, mutex,
               built, slot,
               more>>

\* three markers named in a type, nothing resolved yet
InitFlag ==
    /\ InitHandles
    /\ InitLocks
    /\ InitStatics
    /\ fl \in {[NoFlags EXCEPT !.a = A, !.b = B, !.c = C] :
                  A \in Flags, B \in Flags, C \in Flags}
    /\ InitMore

\* <A as CombineFlag<B>>::Combined
Combine ==
    /\ fl' = [fl EXCEPT !.f = "a_b", !.out = CombineFlag(fl.a, fl.b)]
    /\ UNCHANGED flag_vars

\* <<A as CombineFlag<B>>::Combined as CombineFlag<C>>::Combined
CombineLeft ==
    /\ fl' = [fl EXCEPT !.f = "ab_c",
                        !.out = CombineFlag(CombineFlag(fl.a, fl.b), fl.c)]
    /\ UNCHANGED flag_vars

\* <A as CombineFlag<<B as CombineFlag<C>>::Combined>>::Combined
CombineRight ==
    /\ fl' = [fl EXCEPT !.f = "a_bc",
                        !.out = CombineFlag(fl.a, CombineFlag(fl.b, fl.c))]
    /\ UNCHANGED flag_vars

\* the bound G: Implies<F> with G = A, F = B: does it resolve
Implies ==
    /\ fl' = [fl EXCEPT !.f = "a_implies_b", !.holds = ImpliesFlag(fl.a, fl.b)]
    /\ UNCHANGED flag_vars

\* the bounds <A as CombineFlag<B>>::Combined: Implies<A> and Implies<B>
ImpliesCombined ==
    /\ fl' = [fl EXCEPT !.f = "ab_implies",
                        !.out = CombineFlag(fl.a, fl.b),
                        !.holds = /\ ImpliesFlag(CombineFlag(fl.a, fl.b), fl.a)
                                  /\ ImpliesFlag(CombineFlag(fl.a, fl.b), fl.b)]
    /\ UNCHANGED flag_vars

NextFlag ==
    \/ Combine
    \/ CombineLeft
    \/ CombineRight
    \/ Implies
    \/ ImpliesCombined
SpecFlag == InitFlag /\ [][NextFlag]_vars

\* the impls of Implies in the flat-struct module: Implies<()> for RW and
\* for W, Implies<W> for W and for RW, Implies<RW> for RW
struct_Implies(F, G) ==
    \/ F = "RW" /\ G = "none"
    \/ F = "W" /\ G = "none"
    \/ F = "W" /\ G = "W"
    \/ F = "RW" /\ G = "W"
    \/ F = "RW" /\ G = "RW"

\* the bound A: Implies<B> of the flat-struct module: does it resolve
FlatImplies ==
    /\ fl' = [fl EXCEPT !.f = "flat_a_implies_b",
                        !.holds = struct_Implies(fl.a, fl.b)]
    /\ UNCHANGED flag_vars

NextTables == NextFlag \/ FlatImplies
SpecTables == InitFlag /\ [][NextTables]_vars

\* ------------------------------------------------------- action terms
\* the record type of the doc example: its fields are the cells 1..NumCells
\* (a = 1, b = NumCells), its sub-record u (see Subs), its named actions A
\* and F
Actions == {"A", "F"}

\* struct_actions!(S { field: flag }): FlagAs<field marker, flag>
FlagAs(m, F) == [k |-> "field", x |-> m, y |-> F]
\* struct_actions!(S { |field: {actions} }): FlagAs<sub-record marker, actions>
FlagAsSub(u, A) == [k |-> "sub", x |-> u, y |-> A]
\* struct_actions!(S { A }): the marker of the named action
Named(n) == [k |-> "named", x |-> n, y |-> None]
\* struct_actions!(S { t, rest }): the tuple (t, rest)
Pair(A, B) == [k |-> "pair", x |-> A, y |-> B]

\* action A = { a: W, b: RW }; action F = { A, a: RW }
Body(n) ==
    IF n = "A"
    THEN Pair(FlagAs(1, "W"), FlagAs(NumCells, "RW"))
    ELSE Pair(Named("A"), FlagAs(1, "RW"))

RECURSIVE FieldFlag_first_mention(_, _)
\* variant: on a tuple the first term that mentions the field decides
FieldFlag_first_mention(A, f) ==
    CASE A.k = "unit" -> "none"
      [] A.k = "field" -> IF A.x = f THEN A.y ELSE "none"
      [] A.k = "sub" -> "none"
      [] A.k = "named" -> FieldFlag_first_mention(Body(A.x), f)
      [] A.k = "pair" ->
            IF FieldFlag_first_mention(A.x, f) # "none"
            THEN FieldFlag_first_mention(A.x, f)
            ELSE FieldFlag_first_mention(A.y, f)

RECURSIVE FieldFlag(_, _)
\* <A as FieldFlag<f>>::Flag: () for (), for FlagAs of another field or of
\* a sub-record; the flag for FlagAs of f; the body's for a named action;
\* the combined flag for a tuple
FieldFlag(A, f) ==
    CASE A.k = "unit" -> "none"
      [] A.k = "field" -> IF A.x = f THEN A.y ELSE "none"
      [] A.k = "sub" -> "none"
      [] A.k = "named" -> FieldFlag(Body(A.x), f)
      [] A.k = "pair" -> CombineFlag(FieldFlag(A.x, f), FieldFlag(A.y, f))

\* the terms struct_actions! builds from one or two entries
FieldAtoms == {FlagAs(m, F) : m \in Cells, F \in {"W", "RW"}}
NamedAtoms == {Named(n) : n \in Actions}
SubAtoms ==
    {FlagAsSub(u, A) : u \in Subs,
                       A \in {Unit, FlagAs(1, "W"), FlagAs(1, "RW"), Named("A")}}
Atoms == FieldAtoms \cup NamedAtoms \cup SubAtoms
ActionLists == {Unit} \cup Atoms \cup {Pair(A, B) : A \in Atoms, B \in Atoms}

\* no impl applies: the bound is not satisfied and the type does not resolve
NoImpl == [k |-> "no_impl", x |-> None, y |-> None]
Failed(A) == A.k = "no_impl"

\* impl Simple: (), FlagAs<_, _>, the marker of a named action
Simple(A) == A.k \in {"unit", "field", "sub", "named"}

\* <R as Append<A>>::Appended: A for (), (R, A) for FlagAs and named markers
Appended(R, A) ==
    CASE R.k = "unit" -> A
      [] R.k \in {"field", "sub", "named"} -> Pair(R, A)
      [] OTHER -> NoImpl

RECURSIVE PiecewiseSimplify(_, _)
RECURSIVE LASimplify(_, _)
RECURSIVE RASimplify(_)

\* <B as PiecewiseSimplify<C>>: Combined (c) and Remainder (r), impl by impl
PiecewiseSimplify(B, C) ==
    LET keep == [c |-> B, r |-> C]
        done(T) == [c |-> T, r |-> Unit]
        none == [c |-> NoImpl, r |-> NoImpl]
        of_pair ==
            IF ~Simple(B.x) THEN none
            ELSE LET p == PiecewiseSimplify(B.x, C)
                 IN  IF Failed(p.c) THEN none
                     ELSE LET q == PiecewiseSimplify(B.y, p.r)
                          IN  IF Failed(q.c) THEN none
                              ELSE [c |-> Pair(p.c, q.c), r |-> q.r]
        of_field ==
            CASE C.k = "unit" -> done(B)
              [] C.k = "field" ->
                    IF C.x = B.x
                    THEN done(FlagAs(B.x, CombineFlag(B.y, C.y)))
                    ELSE keep
              [] C.k = "sub" -> keep
              [] C.k = "named" -> keep
        of_sub ==
            CASE C.k = "unit" -> done(B)
              [] C.k = "field" -> keep
              [] C.k = "sub" ->
                    IF C.x = B.x
                    THEN LET l == LASimplify(B.y, C.y)
                         IN  IF Failed(l) THEN none
                             ELSE done(FlagAsSub(B.x, l))
                    ELSE keep
              [] C.k = "named" -> keep
        of_named ==
            CASE C.k = "unit" -> done(B)
              [] C.k = "field" -> keep
              [] C.k = "sub" -> none
              [] C.k = "named" -> IF C.x = B.x THEN done(B) ELSE none
    IN  IF ~Simple(C) THEN none
        ELSE CASE B.k = "unit" -> done(C)
               [] B.k = "pair" -> of_pair
               [] B.k = "field" -> of_field
               [] B.k = "sub" -> of_sub
               [] B.k = "named" -> of_named
               [] OTHER -> none

\* RASimplified: a Simple type is its own; for (A, B) with A Simple, walk A
\* through B and put what remains of it in front
RASimplify(T) ==
    IF Simple(T) THEN T
    ELSE IF T.k # "pair" \/ ~Simple(T.x) THEN NoImpl
    ELSE LET p == PiecewiseSimplify(T.y, T.x)
         IN  IF Failed(p.c) THEN NoImpl ELSE Appended(p.r, p.c)

\* <A as LASimplify<B>>::LASimplified: the entries of A are added to B from
\* the last to the first
LASimplify(A, B) ==
    IF Failed(A) \/ Failed(B) THEN NoImpl
    ELSE IF Simple(A) THEN RASimplify(Pair(A, B))
    ELSE IF ~Simple(A.x) THEN NoImpl
    ELSE LET l == LASimplify(A.y, B)
         IN  IF Failed(l) THEN NoImpl ELSE RASimplify(Pair(A.x, l))

\* <(A, B) as Simplify>::Simplified
Simplify(T) == LASimplify(T.x, T.y)

\* what resolving an action type leaves alone: everything at run time
ty_vars == <<opt, value, listeners, guard, underflow, handles, pc, call,
             calls, net, removed, lastOp, readers, reglock, frame, mutex,
             built, slot, fl, content, views, vlast, panicked, rest>>

\* two actions named in a type, nothing resolved yet
InitActions ==
    /\ InitHandles
    /\ InitLocks
    /\ InitStatics
    /\ fl = NoFlags
    /\ ty \in {[NoTy EXCEPT !.a = A, !.b = B] :
                  A \in ActionLists, B \in ActionLists}
    /\ InitRest

\* the field types of Struct<(A, B)>: <(A, B) as FieldFlag<f>>::Flag
FieldFlags ==
    /\ ty' = [ty EXCEPT !.fn = "FieldFlag",
                        !.out = [f \in Cells |-> FieldFlag(Pair(ty.a, ty.b), f)]]
    /\ UNCHANGED ty_vars

\* the sub-record type of Struct<(A, B)> when A and B hold the actions a
\* and b on it: <(a, b) as Simplify>::Simplified
Simplified ==
    /\ ty' = [ty EXCEPT !.fn = "Simplify", !.out = Simplify(Pair(ty.a, ty.b))]
    /\ UNCHANGED ty_vars

NextActions ==
    \/ FieldFlags
    \/ Simplified
SpecActions == InitActions /\ [][NextActions]_vars

\* --------------------------------------------------------------- views
RECURSIVE SubstructFlag(_, _)
\* <A as SubstructFlag<u>>::Actions: () for () and for FlagAs of a field or
\* of another sub-record, the actions for FlagAs of u, the body's for a
\* named action, the simplified pair for a tuple
SubstructFlag(A, u) ==
    CASE A.k = "sub" -> IF A.x = u THEN A.y ELSE Unit
      [] A.k = "named" -> SubstructFlag(Body(A.x), u)
      [] A.k = "pair" ->
            Simplify(Pair(SubstructFlag(A.x, u), SubstructFlag(A.y, u)))
      [] OTHER -> Unit

\* the flag in the type of the field at path p of Struct<A>
Resolved(A, p) ==
    IF p.u = "top" THEN FieldFlag(A, p.f)
    ELSE FieldFlag(SubstructFlag(A, p.u), p.f)

\* the actions a view is used with: those whose sub-record actions resolve
ViewActions ==
    {A \in {Unit, FlagAs(1, "W"), Named("A"), Named("F"),
             FlagAsSub("u", FlagAs(1, "RW")),
             Pair(FlagAs(NumCells, "RW"), FlagAsSub("u", Named("A"))),
             Pair(FlagAsSub("u", FlagAs(1, "W")),
                  FlagAsSub("u", FlagAs(NumCells, "RW"))),
             Pair(Named("A"), FlagAsSub("u", FlagAs(1, "W")))} :
        \A u \in Subs : ~Failed(SubstructFlag(A, u))}

\* variant: the W marker registers the listener too
StructFlag_init_W_registers(p, s, F) ==
    IF F = "none" THEN NoField ELSE Shared(p, s, F)

\* sealed::StructFlag::_init: None for (), else init_with_listener on the
\* field's link
StructFlag_init(p, s, F) ==
    IF F = "none" THEN NoField ELSE init_with_listener(p, s, F)

\* the registry of the field's link after _init made handle h
StructFlag_init_reg(reg, h) ==
    IF h.id # None THEN add_listener(reg, h.id, Updater(h.id)) ELSE reg

\* variant: the handle of a W field takes the id of a scope
ShareFlag_share_takes_id(p, F) ==
    IF F = "none" THEN NoField ELSE Shared(p, 1, F)

\* sealed::ShareFlag::_share: None for (), Static::_share(link) for W
ShareFlag_share(p, F) ==
    IF F = "none" THEN NoField ELSE from_link(p)

\* variant: only the fields of the record itself are compared
StructImplies_top_only(A, B) ==
    \A p \in {q \in Paths : q.u = "top"} :
        ImpliesFlag(Resolved(A, p), Resolved(B, p))

\* FlagAs<Struct, A>: Implies<FlagAs<Struct, B>>: field by field, and for
\* each sub-record the same on its actions
StructImplies(A, B) ==
    \A p \in Paths : ImpliesFlag(Resolved(A, p), Resolved(B, p))

\* Option::is_none of a field of a view
IsNone(h) == h.tag = "none"

\* what the views leave alone
view_vars == <<opt, value, listeners, guard, underflow, handles, pc, call,
               calls, net, removed, lastOp, readers, reglock, frame, mutex,
               built, slot, fl, ty, rest>>

\* the registries of the record, field by field
Registries == [p \in Paths |-> content[p].listeners]

\* HasActions::use_ with listener (s, updater) on the static's content:
\* _init for every field, use_ for every sub-record
UseView(v, s, A) ==
    /\ ~views[v].live
    /\ A \in ViewActions
    /\ \A p \in Paths : CountOf(content[p].listeners, s) < MaxCount
    /\ views' = [views EXCEPT ![v] =
          [live |-> TRUE, act |-> A, id |-> s, seen |-> A,
           fields |-> [p \in Paths |-> StructFlag_init(p, s, Resolved(A, p))]]]
    /\ content' = [p \in Paths |->
          [content[p] EXCEPT !.listeners =
              StructFlag_init_reg(@, StructFlag_init(p, s, Resolved(A, p)))]]
    /\ vlast' = [NoLast EXCEPT !.op = "use_", !.v = v, !.used = v,
                               !.before = Registries]
    /\ UNCHANGED panicked
    /\ UNCHANGED view_vars

\* HasWriteActions::share: every flag is ShareFlag, that is () or W
ShareView(v, A) ==
    /\ ~views[v].live
    /\ A \in ViewActions
    /\ \A p \in Paths : Resolved(A, p) # "RW"
    /\ views' = [views EXCEPT ![v] =
          [live |-> TRUE, act |-> A, id |-> None, seen |-> A,
           fields |-> [p \in Paths |-> ShareFlag_share(p, Resolved(A, p))]]]
    /\ vlast' = [NoLast EXCEPT !.op = "share", !.v = v, !.used = v,
                               !.before = Registries]
    /\ UNCHANGED <<content, panicked>>
    /\ UNCHANGED view_vars

\* variant: the B-view is built anew on the content instead of being the
\* same memory
WithActions_builds_anew(v, B) ==
    /\ views[v].live
    /\ B \in ViewActions
    /\ StructImplies(views[v].seen, B)
    /\ views[v].id # None
    /\ \A p \in Paths : CountOf(content[p].listeners, views[v].id) < MaxCount
    /\ views' = [views EXCEPT ![v].seen = B,
          ![v].fields = [p \in Paths |->
                StructFlag_init(p, views[v].id, Resolved(B, p))]]
    /\ content' = [p \in Paths |->
          [content[p] EXCEPT !.listeners =
              StructFlag_init_reg(@, StructFlag_init(p, views[v].id, Resolved(B, p)))]]
    /\ vlast' = [vlast EXCEPT !.op = "with_actions", !.v = v, !.h = NoField]
    /\ UNCHANGED panicked
    /\ UNCHANGED view_vars

\* with_actions / AsRef::as_ref: transmute(self), allowed when the view's
\* actions imply B
WithActions(v, B) ==
    /\ views[v].live
    /\ B \in ViewActions
    /\ StructImplies(views[v].seen, B)
    /\ views' = [views EXCEPT ![v].seen = B]
    /\ vlast' = [vlast EXCEPT !.op = "with_actions", !.v = v, !.h = NoField]
    /\ UNCHANGED <<content, panicked>>
    /\ UNCHANGED view_vars

\* the accessor of the field at p: self.$f.as_ref().unwrap(), defined when
\* the flag of the field is W or RW
Accessor(v, p) ==
    /\ views[v].live
    /\ Resolved(views[v].seen, p) \in {"W", "RW"}
    /\ IF IsNone(views[v].fields[p])
       THEN /\ panicked' = TRUE
            /\ vlast' = [vlast EXCEPT !.op = "field", !.v = v, !.h = NoField]
       ELSE /\ UNCHANGED panicked
            /\ vlast' = [vlast EXCEPT !.op = "field", !.v = v,
                  !.h = [views[v].fields[p] EXCEPT
                            !.tag = Resolved(views[v].seen, p)]]
    /\ UNCHANGED <<content, views>>
    /\ UNCHANGED view_vars

\* the view is dropped: Drop for Shared on every field that is Some
DropView(v) ==
    /\ views[v].live
    /\ views' = [views EXCEPT ![v] = NoView]
    /\ content' = [p \in Paths |->
          [content[p] EXCEPT !.listeners =
              IF views[v].fields[p].id # None
              THEN drop_listener(@, views[v].fields[p].id)
              ELSE @]]
    /\ vlast' = [NoLast EXCEPT !.op = "drop", !.v = v,
                               !.undo = (vlast.used = v)]
    /\ UNCHANGED panicked
    /\ UNCHANGED view_vars

NextViews ==
    \/ \E v \in ViewIds, s \in Ids, A \in ViewActions : UseView(v, s, A)
    \/ \E v \in ViewIds, A \in ViewActions : ShareView(v, A)
    \/ \E v \in ViewIds, B \in ViewActions : WithActions(v, B)
    \/ \E v \in ViewIds, p \in Paths : Accessor(v, p)
    \/ \E v \in ViewIds : DropView(v)
SpecViews == Init /\ [][NextViews]_vars

\* ================================================================ ArcMap
\* everything but the pointers, their owners and the stored values
arc_vars == <<opt, value, listeners, guard, underflow, handles, pc, call,
              calls, net, removed, lastOp, readers, reglock, frame, mutex,
              built, slot, fl, ty, content, views, vlast, panicked,
              list_state, macro_state>>

\* the functions a pointer is mapped by, fn(&T) -> &U: a field of the
\* owner's value, or a static whatever the argument
Projs == Fields \cup {"static"}

\* f takes the type the pointer has: a field is a field of the owner's type
CanApply(f, of) == f \in Fields => of = "rec"

\* f(unsafe { self.inner.as_ref() }).into(): where the result of f lives
ApplyProj(f, l) ==
    IF f = "static" THEN StaticLoc ELSE [o |-> l.o, at |-> f]

\* the type U of the mapped pointer
TypeAfter(f, of) == "fld"

\* slots and allocations are taken lowest first
FreeSlot(p) == ~ptr[p].live /\ \A r \in PtrIds : r < p => ptr[r].live
FreeOwner(o) == ~owner[o].alloc /\ \A r \in OwnerIds : r < o => owner[r].alloc

\* the target is in memory that is still allocated
Valid(l) == IF l = StaticLoc THEN TRUE ELSE owner[l.o].alloc

\* the value behind a pointer; an owner's value is its fields
Deref(a) ==
    IF a.of = "rec"
    THEN [f \in Fields |-> store[[o |-> a.inner.o, at |-> f]]]
    ELSE store[a.inner]

\* a box_clone that copies the Box without cloning the Arc in it
box_clone_shares_count(o) == owner

\* Box::new(self.clone()) on the Arc in allocation o: one more strong count
box_clone(o) == [owner EXCEPT ![o].count = @ + 1]

\* the Box<dyn Arc> is dropped with its Arc: one strong count less, and the
\* owner is freed when none is left
Arc_drop(o) ==
    [owner EXCEPT ![o] =
        IF @.count > 0
        THEN [@ EXCEPT !.count = @ - 1, !.alloc = (owner[o].count - 1 > 0)]
        ELSE @]

\* the value of a freed owner is gone
Dropped(ow) ==
    [l \in Locations |->
        IF l # StaticLoc /\ ~ow[l.o].alloc THEN None ELSE store[l]]

\* equality of the values pointed at
ptr_eq_by_value(a, b) == Deref(a) = Deref(b)

\* a.inner == b.inner
ptr_eq(a, b) == a.inner = b.inner

\* impl PartialEq for ListEntry: ArcMap::ptr_eq(&self.0, &o.0)
ListEntry_eq(a, b) == ptr_eq(a, b)

\* ArcMap::from(outer) into slot p, where outer is an Arc the caller made in
\* allocation o for a value whose field a is va (field b is a constant) and
\* cloned k times before
ArcMap_from(p, o, k, va) ==
    /\ FreeSlot(p)
    /\ FreeOwner(o)
    /\ owner' = [owner EXCEPT ![o] =
                    [count |-> 1 + k, alloc |-> TRUE, held |-> k]]
    /\ ptr' = [ptr EXCEPT ![p] =
                  [live |-> TRUE, of |-> "rec", outer |-> o,
                   inner |-> [o |-> o, at |-> "top"], hist |-> <<>>]]
    /\ store' = [store EXCEPT ![[o |-> o, at |-> "a"]] = va]
    /\ UNCHANGED arc_vars

\* ArcMap::new(t): ArcMap::from(std::sync::Arc::new(t))
ArcMap_new(p, va) == \E o \in OwnerIds : ArcMap_from(p, o, 0, va)

\* ArcMap::from(outer) where the caller keeps clones of outer
ArcMap_from_shared(p, k, va) ==
    /\ k > 0
    /\ \E o \in OwnerIds : ArcMap_from(p, o, k, va)

\* ArcMap::from(outer) where outer is a clone the caller kept of the Arc in o
ArcMap_from_kept(p, o) ==
    /\ FreeSlot(p)
    /\ owner[o].held > 0
    /\ owner' = [owner EXCEPT ![o].held = @ - 1]
    /\ ptr' = [ptr EXCEPT ![p] =
                  [live |-> TRUE, of |-> "rec", outer |-> o,
                   inner |-> [o |-> o, at |-> "top"], hist |-> <<>>]]
    /\ UNCHANGED store
    /\ UNCHANGED arc_vars

\* the caller drops a clone it kept of the Arc in o
KeptDrop(o) ==
    /\ owner[o].held > 0
    /\ LET ow == [Arc_drop(o) EXCEPT ![o].held = @ - 1]
       IN  /\ owner' = ow
           /\ store' = Dropped(ow)
    /\ UNCHANGED ptr
    /\ UNCHANGED arc_vars

\* p = p.map(f): the pointer is consumed, its outer moves to the result
ArcMap_map(p, f) ==
    /\ ptr[p].live
    /\ CanApply(f, ptr[p].of)
    /\ Len(ptr[p].hist) < MaxMaps
    /\ ptr' = [ptr EXCEPT ![p] =
                  [@ EXCEPT !.of = TypeAfter(f, @),
                            !.inner = ApplyProj(f, @),
                            !.hist = Append(@, f)]]
    /\ UNCHANGED <<owner, store>>
    /\ UNCHANGED arc_vars

\* q = p.clone(): the same inner, a box_clone of outer
ArcMap_clone(p, q) ==
    /\ ptr[p].live
    /\ FreeSlot(q)
    /\ ptr' = [ptr EXCEPT ![q] = ptr[p]]
    /\ owner' = box_clone(ptr[p].outer)
    /\ UNCHANGED store
    /\ UNCHANGED arc_vars

\* the ArcMap in slot p is dropped, and its outer with it
ArcMap_drop(p) ==
    /\ ptr[p].live
    /\ ptr' = [ptr EXCEPT ![p] = NoPtr]
    /\ LET ow == Arc_drop(ptr[p].outer)
       IN  /\ owner' = ow
           /\ store' = Dropped(ow)
    /\ UNCHANGED arc_vars

\* a write through the pointer in slot p (the target is a cell, written
\* through &self): to field a of an owner's value, or to the target when
\* that is a field a. A pointer whose target was freed has no defined write;
\* no reachable pointer is one
ArcWrite(p, v) ==
    /\ ptr[p].live
    /\ Valid(ptr[p].inner)
    /\ LET l == IF ptr[p].of = "rec"
                THEN [o |-> ptr[p].inner.o, at |-> "a"]
                ELSE ptr[p].inner
       IN  /\ l.at = "a"
           /\ store[l] # v
           /\ store' = [store EXCEPT ![l] = v]
    /\ UNCHANGED <<owner, ptr>>
    /\ UNCHANGED arc_vars

\* where a pointer made from the Arc in o and mapped by the functions of h,
\* in turn, points: each map applies f to the target of the pointer before
RECURSIVE Locate(_, _)
Locate(l, h) ==
    IF h = <<>> THEN l ELSE Locate(ApplyProj(Head(h), l), Tail(h))
Target(a) == Locate([o |-> a.outer, at |-> "top"], a.hist)

\* ArcMap::ptr_eq on the pointers in two slots
PtrEq(p, q) == ptr_eq(ptr[p], ptr[q])

NextArc ==
    \/ \E p \in PtrIds, va \in Vals : ArcMap_new(p, va)
    \/ \E p \in PtrIds, k \in 0..MaxHeld, va \in Vals :
          ArcMap_from_shared(p, k, va)
    \/ \E p \in PtrIds, o \in OwnerIds : ArcMap_from_kept(p, o)
    \/ \E o \in OwnerIds : KeptDrop(o)
    \/ \E p \in PtrIds, f \in Projs : ArcMap_map(p, f)
    \/ \E p \in PtrIds, q \in PtrIds : ArcMap_clone(p, q)
    \/ \E p \in PtrIds : ArcMap_drop(p)
    \/ \E p \in PtrIds, v \in Vals : ArcWrite(p, v)
SpecArc == Init /\ [][NextArc]_vars

\* ================================================================== List
\* everything but the list, its cells and what refers to them
list_vars == <<opt, value, listeners, guard, underflow, handles, pc, call,
               calls, net, removed, lastOp, readers, reglock, frame, mutex,
               built, slot, fl, ty, content, views, vlast, panicked,
               arc_state, macro_state>>

\* the allocations that hold no cell
FreeCells(cs) == {c \in LCells : ~cs[c].alloc}

\* the allocation a new cell is put in: a free one, the lowest
FreshCell(cs) == CHOOSE c \in FreeCells(cs) : \A d \in FreeCells(cs) : c <= d

\* ListEntry::new(t): ArcMap::new(Link::new(t)), in allocation c
ListEntry_new(cs, c, t) ==
    [cs EXCEPT ![c] = [alloc |-> TRUE, count |-> 1, link |-> Link_new(t)]]

\* a reference to cell c is dropped (a ListEntry, or the link of a handle):
\* the cell is freed with the last one
ListEntry_drop(cs, c) ==
    [cs EXCEPT ![c] = IF @.count > 1
                      THEN [@ EXCEPT !.count = @ - 1]
                      ELSE NoCell]

\* a ListEntry or a link is cloned: one more reference to cell c
ListEntry_clone(cs, c) == [cs EXCEPT ![c].count = @ + 1]

\* a fill that writes the value into the cell of every position and marks
\* its listeners as needing update
fill_with_sets_values(cs, l, vs) ==
    [cells |-> [c \in LCells |->
                   IF \E i \in 1..Len(l) : l[i] = c
                   THEN [cs[c] EXCEPT !.link.value =
                            vs[CHOOSE i \in 1..Len(l) : l[i] = c]]
                   ELSE cs[c]],
     list |-> l,
     fired |-> UNION {notified(cs[l[i]].link.listeners) : i \in 1..Len(l)}]

\* self.0.fill_with(|| ListEntry::new(f())) from position i on: for each
\* position in turn a new entry is made, put there, and the old one dropped
RECURSIVE fill_from(_, _, _, _)
fill_from(cs, l, vs, i) ==
    IF i > Len(l)
    THEN [cells |-> cs, list |-> l, fired |-> {}]
    ELSE LET c == FreshCell(cs)
         IN  fill_from(ListEntry_drop(ListEntry_new(cs, c, vs[i]), l[i]),
                       [l EXCEPT ![i] = c], vs, i + 1)

\* List::fill_with(f), f returning vs[1], vs[2], ... in turn
fill_with(cs, l, vs) == fill_from(cs, l, vs, 1)

\* List::push(value)
ListPush(t) ==
    /\ Len(list) < MaxLen
    /\ FreeCells(lcells) # {}
    /\ LET c == FreshCell(lcells)
       IN  /\ lcells' = ListEntry_new(lcells, c, t)
           /\ list' = Append(list, c)
    /\ lfired' = {}
    /\ UNCHANGED lkept
    /\ UNCHANGED list_vars

\* List::fill_with(f)
ListFillWith(vs) ==
    /\ list # <<>>
    /\ Cardinality(FreeCells(lcells)) >= Len(list)
    /\ LET r == fill_with(lcells, list, vs)
       IN  /\ lcells' = r.cells
           /\ list' = r.list
           /\ lfired' = r.fired
    /\ UNCHANGED lkept
    /\ UNCHANGED list_vars

\* List::fill(t): self.0.fill_with(|| ListEntry::new(t.clone()))
ListFill(t) == ListFillWith([i \in 1..Len(list) |-> t])

\* List::get(i), the ListEntry kept: a clone of the entry at position i
ListGet(i) ==
    /\ i \in 1..Len(list)
    /\ lkept[list[i]].entry < MaxKept
    /\ lkept' = [lkept EXCEPT ![list[i]].entry = @ + 1]
    /\ lcells' = ListEntry_clone(lcells, list[i])
    /\ lfired' = {}
    /\ UNCHANGED list
    /\ UNCHANGED list_vars

\* a kept ListEntry of cell c is dropped
ListEntryDrop(c) ==
    /\ lkept[c].entry > 0
    /\ lkept' = [lkept EXCEPT ![c].entry = @ - 1]
    /\ lcells' = ListEntry_drop(lcells, c)
    /\ lfired' = {}
    /\ UNCHANGED list
    /\ UNCHANGED list_vars

\* ListEntry::use_rw(cx) in scope s on a kept ListEntry of cell c:
\* Shared::init on a clone of the link registers the scope
ListEntryUseRW(c, s) ==
    /\ lkept[c].entry > 0
    /\ s \notin lkept[c].rw
    /\ lkept' = [lkept EXCEPT ![c].rw = @ \cup {s}]
    /\ lcells' = [ListEntry_clone(lcells, c) EXCEPT ![c].link.listeners =
                     add_listener(@, s, Updater(s))]
    /\ lfired' = {}
    /\ UNCHANGED list
    /\ UNCHANGED list_vars

\* Shared::set(t) on the RW handle scope s holds of cell c: the value is
\* written and the listeners are marked as needing update
ListHandleSet(c, s, t) ==
    /\ s \in lkept[c].rw
    /\ lcells[c].link.value # t
    /\ lcells' = [lcells EXCEPT ![c].link.value = t]
    /\ lfired' = notified(lcells[c].link.listeners)
    /\ UNCHANGED <<list, lkept>>
    /\ UNCHANGED list_vars

\* the RW handle scope s holds of cell c is dropped
ListHandleDrop(c, s) ==
    /\ s \in lkept[c].rw
    /\ lkept' = [lkept EXCEPT ![c].rw = @ \ {s}]
    /\ lcells' = ListEntry_drop(
                    [lcells EXCEPT ![c].link.listeners = drop_listener(@, s)],
                    c)
    /\ lfired' = {}
    /\ UNCHANGED list
    /\ UNCHANGED list_vars

NextList ==
    \/ \E t \in Vals : ListPush(t)
    \/ \E t \in Vals : ListFill(t)
    \/ \E vs \in [1..Len(list) -> Vals] : ListFillWith(vs)
    \/ \E i \in 1..MaxLen : ListGet(i)
    \/ \E c \in LCells : ListEntryDrop(c)
    \/ \E c \in LCells, s \in ListScopes : ListEntryUseRW(c, s)
    \/ \E c \in LCells, s \in ListScopes, t \in Vals : ListHandleSet(c, s, t)
    \/ \E c \in LCells, s \in ListScopes : ListHandleDrop(c, s)
SpecList == Init /\ [][NextList]_vars

\* ------------------------------------------- entries taken from the list
\* the positions left when the positions of S are taken out, in order
RECURSIVE Without(_, _, _)
Without(l, S, i) ==
    IF i > Len(l) THEN <<>>
    ELSE (IF i \in S THEN <<>> ELSE <<l[i]>>) \o Without(l, S, i + 1)

\* a removal that hands out a handle on a copy of the cell: a new cell with
\* the value, and the entry dropped
taken_link_copies_cell(cs, c) ==
    IF FreeCells(cs) = {} THEN [cells |-> cs, cell |-> c]
    ELSE LET d == FreshCell(cs)
         IN  [cells |-> ListEntry_drop(ListEntry_new(cs, d, cs[c].link.value), c),
              cell |-> d]

\* Shared::from_link(l.0) on the entry taken out: the ArcMap moves into the
\* handle, the same cell with the same count
taken_link(cs, c) == [cells |-> cs, cell |-> c]

\* .map(|l| Shared::from_link(l.0)) over the entries at the positions of T,
\* in order: each becomes a W handle, id None
RECURSIVE take_all(_, _, _)
take_all(cs, k, T) ==
    IF T = {} THEN [cells |-> cs, kept |-> k]
    ELSE LET i == CHOOSE j \in T : \A m \in T : j <= m
             r == taken_link(cs, list[i])
         IN  take_all(r.cells, [k EXCEPT ![r.cell].w = @ + 1], T \ {i})

\* replace_with.into_iter().map(ListEntry::new): a new cell for each value
RECURSIVE new_entries(_, _)
new_entries(cs, vs) ==
    IF vs = <<>> THEN [cells |-> cs, ids |-> <<>>]
    ELSE LET c == FreshCell(cs)
             r == new_entries(ListEntry_new(cs, c, Head(vs)), Tail(vs))
         IN  [cells |-> r.cells, ids |-> <<c>> \o r.ids]

\* the entries at the positions of S leave the list, l is what is left, and
\* each comes back as Shared::from_link(l.0)
Take(S, l) ==
    /\ S # {}
    /\ \A i \in S : lkept[list[i]].w < MaxKept
    /\ list' = l
    /\ LET res == take_all(lcells, lkept, S)
       IN  /\ lcells' = res.cells
           /\ lkept' = res.kept
    /\ lfired' = {}
    /\ UNCHANGED list_vars

\* List::pop
ListPop == list # <<>> /\ Take({Len(list)}, SubSeq(list, 1, Len(list) - 1))

\* List::remove(index)
ListRemove(i) == i \in 1..Len(list) /\ Take({i}, Without(list, {i}, 1))

\* List::swap_remove(index): the last entry takes the place
ListSwapRemove(i) ==
    /\ i \in 1..Len(list)
    /\ Take({i}, SubSeq([list EXCEPT ![i] = list[Len(list)]], 1, Len(list) - 1))

\* List::drain(i..=j), every handle of the iterator taken
ListDrain(i, j) ==
    /\ i \in 1..Len(list) /\ j \in i..Len(list)
    /\ Take(i..j, Without(list, i..j, 1))

\* List::splice(i..=j, vs), every handle of the iterator taken: the range
\* leaves, new entries for vs take its place
ListSplice(i, j, vs) ==
    /\ i \in 1..Len(list) /\ j \in i..Len(list)
    /\ \A m \in i..j : lkept[list[m]].w < MaxKept
    /\ Cardinality(FreeCells(lcells)) >= Len(vs)
    /\ LET res == take_all(lcells, lkept, i..j)
           new == new_entries(res.cells, vs)
       IN  /\ lcells' = new.cells
           /\ lkept' = res.kept
           /\ list' = SubSeq(list, 1, i - 1) \o new.ids
                        \o SubSeq(list, j + 1, Len(list))
    /\ lfired' = {}
    /\ UNCHANGED list_vars

\* ListEntry::share on a kept ListEntry of cell c: from_link on a clone
ListEntryShare(c) ==
    /\ lkept[c].entry > 0
    /\ lkept[c].w < MaxKept
    /\ lkept' = [lkept EXCEPT ![c].w = @ + 1]
    /\ lcells' = ListEntry_clone(lcells, c)
    /\ lfired' = {}
    /\ UNCHANGED list
    /\ UNCHANGED list_vars

\* `*h.write() = t` on a W handle of cell c: needs_update, then the store
ListHandleWrite(c, t) ==
    /\ lkept[c].w > 0
    /\ lcells' = [lcells EXCEPT ![c].link.value = t]
    /\ lfired' = notified(lcells[c].link.listeners)
    /\ UNCHANGED <<list, lkept>>
    /\ UNCHANGED list_vars

\* a W handle of cell c is dropped: id is None, no drop_listener
ListWDrop(c) ==
    /\ lkept[c].w > 0
    /\ lkept' = [lkept EXCEPT ![c].w = @ - 1]
    /\ lcells' = ListEntry_drop(lcells, c)
    /\ lfired' = {}
    /\ UNCHANGED list
    /\ UNCHANGED list_vars

\* cells alive at once while entries are taken out
MaxLive == 3

NextTake ==
    \/ \E t \in Vals : Cardinality(LCells \ FreeCells(lcells)) < MaxLive /\ ListPush(t)
    \/ \E i \in 1..MaxLen : ListGet(i)
    \/ \E c \in LCells : ListEntryDrop(c)
    \/ \E c \in LCells, s \in ListScopes : ListEntryUseRW(c, s)
    \/ \E c \in LCells, s \in ListScopes : ListHandleDrop(c, s)
    \/ ListPop
    \/ \E i \in 1..MaxLen : ListRemove(i)
    \/ \E i \in 1..MaxLen : ListSwapRemove(i)
    \/ \E i \in 1..MaxLen, j \in 1..MaxLen : ListDrain(i, j)
    \/ \E i \in 1..MaxLen, j \in 1..MaxLen, t \in Vals :
          /\ Cardinality(LCells \ FreeCells(lcells)) < MaxLive
          /\ ListSplice(i, j, <<t>>)
    \/ \E c \in LCells : ListEntryShare(c)
    \/ \E c \in LCells, t \in Vals : ListHandleWrite(c, t)
    \/ \E c \in LCells : ListWDrop(c)
SpecTake == Init /\ [][NextTake]_vars

\* ==================================================== record initialisers
\* everything but the initialiser list and the content built from it
ini_vars == <<opt, value, listeners, guard, underflow, handles, pc, call,
              calls, net, removed, lastOp, readers, reglock, frame, mutex,
              built, slot, fl, ty, content, views, vlast, panicked,
              arc_state, list_state, nm>>

\* entries of an initialiser list, and of the list of a sub-record entry
MaxInits == 3
MaxNested == 1

\* the record declared:  a: T = 1, b: T = 0, |u: Sub = { x: 1 }  with
\* Sub declared as  x: T = 0
InitFields == {"a", "b"}
SubFields == {"x"}
finit == [a |-> 1, b |-> 0, x |-> 0]
DeclaredSub == <<[k |-> "field", n |-> "x", v |-> 1, l |-> <<>>]>>

\* `f: expr` names a field, `|u: { ... }` the sub-record
FieldEntry(n, v) == [k |-> "field", n |-> n, v |-> v, l |-> <<>>]
SubEntry(l) == [k |-> "sub", n |-> "u", v |-> 0, l |-> l]
RECURSIVE ListsOf(_, _)
ListsOf(E, n) ==
    IF n = 0 THEN {<<>>}
    ELSE ListsOf(E, n - 1)
         \cup {<<e>> \o l : e \in E, l \in {m \in ListsOf(E, n - 1) : Len(m) = n - 1}}
NestedLists == ListsOf({FieldEntry(n, v) : n \in SubFields, v \in Vals}, MaxNested)
InitLists ==
    ListsOf({FieldEntry(n, v) : n \in InitFields, v \in Vals}
            \cup {SubEntry(l) : l \in NestedLists}, MaxInits)

\* Init<F, A>(PhantomData, Some(a)): the closure or nested initialiser not
\* taken yet, and how often it has run
Init_from(e) ==
    [e |-> e, some |-> TRUE, runs |-> 0,
     inner |-> [i \in 1..Len(e.l) |->
                  [e |-> e.l[i], some |-> TRUE, runs |-> 0, inner |-> <<>>]]]

\* struct_initializer!: (Init::from(..), (Init::from(..), ... ()))
struct_initializer(l) == [i \in 1..Len(l) |-> Init_from(l[i])]

\* Option<T>
Absent == [some |-> FALSE, v |-> <<>>]
Some(v) == [some |-> TRUE, v |-> v]

\* Init::output: the closure's value
output(h) == h.e.v

RECURSIVE Sub_from(_)
\* Init::get_content: Into::into on the nested initialiser
get_content(h) == Sub_from(h.inner).c

\* $StructInitializer::$f on the tuple: () gives None, (Init1, Init2) gives
\* self.0.$f().or_else(|| self.1.$f()), and Init<F, A> gives
\* self.1.take().map(..) for its own field or sub-record F (output for a
\* field, get_content for a sub-record) and None for the others
RECURSIVE tuple_first(_, _)
tuple_first(t, n) ==
    IF t = <<>> THEN [opt |-> Absent, t |-> <<>>]
    ELSE LET h == Head(t)
         IN  IF h.e.n = n /\ h.some
             THEN [opt |-> Some(IF h.e.k = "sub" THEN get_content(h)
                                ELSE output(h)),
                   t |-> <<[h EXCEPT !.some = FALSE, !.runs = @ + 1]>> \o Tail(t)]
             ELSE LET s == tuple_first(Tail(t), n)
                  IN  [opt |-> s.opt, t |-> <<h>> \o s.t]

\* Option::unwrap_or_else
unwrap_or_else(o, d) == IF o.some THEN o.v ELSE d

\* From<_Initializer> for the content of Sub, and what is left of the tuple
Sub_from(t) ==
    LET r == tuple_first(t, "x")
    IN  [c |-> [x |-> unwrap_or_else(r.opt, finit.x)], t |-> r.t]

\* Default for the content of Sub
Sub_default == [x |-> finit.x]

\* the nested tuple of an entry after get_content ran on it
Ran(h) ==
    IF h.e.k = "sub" /\ ~h.some THEN [h EXCEPT !.inner = Sub_from(h.inner).t]
    ELSE h

\* From<_Initializer> for $StructContent: every field from a.$f() or $finit,
\* every sub-record from a.$s().unwrap_or_default()
Content_from(t) ==
    LET ra == tuple_first(t, "a")
        rb == tuple_first(ra.t, "b")
        ru == tuple_first(rb.t, "u")
    IN  [c |-> [a |-> unwrap_or_else(ra.opt, finit.a),
                b |-> unwrap_or_else(rb.opt, finit.b),
                u |-> unwrap_or_else(ru.opt, Sub_default)],
         t |-> [i \in 1..Len(ru.t) |-> Ran(ru.t[i])]]

\* Default for $StructContent: $finit for every field, $sinit for every
\* sub-record
Content_default ==
    [a |-> finit.a, b |-> finit.b,
     u |-> Sub_from(struct_initializer(DeclaredSub)).c]

\* an initialiser list is written
InitMake ==
    /\ InitHandles
    /\ InitLocks
    /\ InitStatics
    /\ fl = NoFlags
    /\ ty = NoTy
    /\ InitStructs
    /\ ini \in {[NoIni EXCEPT !.list = l] : l \in InitLists}
    /\ nm = NoNames

\* Content::from(struct_initializer!(Struct { list }))
MakeFrom ==
    /\ ini.op = "none"
    /\ LET r == Content_from(struct_initializer(ini.list))
       IN  ini' = [ini EXCEPT !.op = "from", !.out = r]
    /\ UNCHANGED ini_vars

\* Content::default()
MakeDefault ==
    /\ ini.op = "none"
    /\ ini' = [ini EXCEPT !.op = "default",
                          !.out = [c |-> Content_default, t |-> <<>>]]
    /\ UNCHANGED ini_vars

NextMake == MakeFrom \/ MakeDefault
SpecMake == InitMake /\ [][NextMake]_vars

\* ========================================================= name encoding
\* everything but the names and their const values
nm_vars == <<opt, value, listeners, guard, underflow, handles, pc, call,
             calls, net, removed, lastOp, readers, reglock, frame, mutex,
             built, slot, fl, ty, content, views, vlast, panicked,
             arc_state, list_state, ini>>

\* the bytes one const value holds (`i >= 16` in seg_str, u128), the const
\* values of a marker (seg_str(name, 0) .. seg_str(name, 15)), the bytes a
\* name can have, and the values a byte takes
SegBytes == 2
NumSegs == 2
MaxName == 4
MaxByte == 2

\* the width of a const value: 8 bits a byte
WordBits == 8 * SegBytes

RECURSIVE Pow2(_)
Pow2(n) == IF n = 0 THEN 1 ELSE 2 * Pow2(n - 1)

\* stringify! of the marker: the bytes of an identifier, none of them 0
MarkerNames ==
    UNION {[1..n -> 1..MaxByte] : n \in 1..MaxName}

\* the loop of seg_str from step i on with c accumulated: s.as_bytes()[r + i]
\* is added at bit 8 * i until i reaches the bytes of a value or r + i the
\* end of the name; over is TRUE once an addition left the width
RECURSIVE seg_loop(_, _, _, _)
seg_loop(s, r, i, acc) ==
    IF i >= SegBytes \/ r + i >= Len(s) THEN acc
    ELSE LET sum == acc.c + s[r + i + 1] * Pow2(8 * i)
         IN  seg_loop(s, r, i + 1,
                      [c |-> sum % Pow2(WordBits),
                       over |-> acc.over \/ sum >= Pow2(WordBits)])

\* seg_str(s, r)
seg_str(s, r) == seg_loop(s, r, 0, [c |-> 0, over |-> FALSE])

\* the const arguments struct_assoc_type! gives AssocField, AssocSubstruct
\* or AssocAction for a marker name
assoc_consts(s) == [r \in 1..NumSegs |-> seg_str(s, r - 1)]

\* two markers of one record are named
InitNames ==
    /\ InitHandles
    /\ InitLocks
    /\ InitStatics
    /\ fl = NoFlags
    /\ ty = NoTy
    /\ InitStructs
    /\ ini = NoIni
    /\ nm \in {[NoNames EXCEPT !.a = a, !.b = b] :
                  a \in MarkerNames, b \in MarkerNames}

\* struct_assoc_type! is expanded for both
AssocType ==
    /\ nm.op = "none"
    /\ nm' = [nm EXCEPT !.op = "assoc",
                        !.va = assoc_consts(nm.a),
                        !.vb = assoc_consts(nm.b)]
    /\ UNCHANGED nm_vars

NextNames == AssocType
SpecNames == InitNames /\ [][NextNames]_vars

\* ============================================================ properties
\* a step that runs needs_update on cell c: Shared::write, Shared::needs_update
NotifiesCell(c) ==
    \E h \in HandleKinds :
        /\ h.cell = c
        /\ \/ NeedsUpdate(h)
           \/ \E t \in Threads : WriteNeedsUpdate(t, h, "write")

\* live handles on cell c that carry id i, whatever their marker
LiveWith(c, i) == handles[Shared(c, i, "W")] + handles[Shared(c, i, "RW")]

\* the steps thread t has done of the call it is in
Done(t) == {Order(call[t].name)[k] : k \in 1..pc[t]}

\* C1: every write / needs_update on a cell runs the callback of each id in
\* that cell's registry exactly once, whatever its count and the writer's own
\* id included, and runs no callback of an id that has no entry.
C1_NotifyEachOnce ==
    [][\A c \in Cells :
          NotifiesCell(c) =>
              \A i \in Ids :
                  calls'[i] = IF i \in DOMAIN listeners[c] THEN 1 ELSE 0]_vars

\* a tracked write through a subscribed handle has just notified: the
\* writer's own id holds two handles and was called once, and an id whose
\* entry was removed from that registry was not called
C1_Witness ==
    \E t \in Threads :
        /\ call[t].name = "write"
        /\ Done(t) = {"needs_update"}
        /\ lastOp = Called
        /\ LET h == call[t].h
           IN  /\ h.id # None
               /\ h.id \in DOMAIN listeners[h.cell]
               /\ listeners[h.cell][h.id].count = 2
               /\ calls[h.id] = 1
               /\ \E j \in Ids : <<h.cell, j>> \in removed /\ calls[j] = 0

\* C2: a tracked write through a handle to cell c runs only callbacks of
\* ids registered in c's registry and changes only c's value: every other
\* cell's value and every registry stay as they were.
C2_CellsIndependent ==
    [][\A t \in Threads, h \in HandleKinds :
          /\ WriteNeedsUpdate(t, h, "write") =>
                /\ \A i \in Ids : calls'[i] > 0 => i \in DOMAIN listeners[h.cell]
                /\ value' = value
                /\ listeners' = listeners
          /\ WriteBorrowMut(t, h, "write") =>
                /\ value' = value
                /\ listeners' = listeners
                /\ calls' = calls
          /\ \A v \in Vals :
                WriteStore(t, h, "write", v) =>
                    /\ value'[h.cell] = v
                    /\ \A d \in Cells \ {h.cell} : value'[d] = value[d]
                    /\ listeners' = listeners
                    /\ calls' = calls]_vars

\* a tracked write on cell c has notified c's subscriber i and stored v,
\* while j, subscribed on another cell d only, was not called and d keeps
\* its other value
C2_Witness ==
    \E c \in Cells, d \in Cells, i \in Ids, j \in Ids :
        /\ c # d
        /\ lastOp.op = "store"
        /\ value[c] = lastOp.ret
        /\ value[d] # lastOp.ret
        /\ i \in DOMAIN listeners[c]
        /\ j \in DOMAIN listeners[d]
        /\ j \notin DOMAIN listeners[c]
        /\ calls[i] = 1
        /\ calls[j] = 0

\* C3: the listeners of a tracked write run only once the new value is
\* stored, the cell write first and the notification after it, so that a
\* listener reading the cell when it is called sees the value written.
\* Shared::write calls needs_update before it takes the write guard.
C3_NotifyAfterStore ==
    \A t \in Threads :
        (call[t].name = "write" /\ "needs_update" \in Done(t))
            => "store" \in Done(t)

\* C4: once every handle that carried id A on a cell is dropped, a tracked
\* write to that cell through another handle does not run A's callback; the
\* write stores the value given, and a read returns the value the cell holds.
C4_DroppedNotNotified ==
    [][\A t \in Threads, h \in HandleKinds :
          /\ WriteNeedsUpdate(t, h, "write") =>
                \A A \in Ids : LiveWith(h.cell, A) = 0 => calls'[A] = 0
          /\ \A v \in Vals :
                WriteStore(t, h, "write", v) => value'[h.cell] = v
          /\ Read(h) => lastOp' = Op("read", value[h.cell])]_vars

\* A's entry on cell c was removed by the drop of its handle; a tracked
\* write through the handle of B has since called B, not A, and stored
C4_Witness ==
    \E c \in Cells, A \in Ids, B \in Ids :
        /\ <<c, A>> \in removed
        /\ LiveWith(c, A) = 0
        /\ handles[Shared(c, B, "RW")] = 1
        /\ calls[A] = 0
        /\ calls[B] = 1
        /\ lastOp.op = "store"
        /\ value[c] = lastOp.ret
        /\ \A d \in Cells \ {c} : ~opt[d]

\* C5: a handle whose marker is W, or a field of marker (), never registers
\* a listener: its construction, its clone and its drop leave every
\* registry as it was, also when the W-marked handle is the field of a view
\* widened by as_ref / with_actions.  Clone goes by the id and not by the
\* marker, so the clone of such a field adds to the count.
C5_WNeverRegisters ==
    [][/\ \A c \in Cells, i \in Ids :
            (StructInit(c, i, "W") \/ StructInit(c, i, "none") \/ FromLink(c)
                \/ \E t \in Vals : Use(c, i, "W", t) \/ Share(c, t))
                => listeners'[c] = listeners[c]
       /\ \A h \in HandleKinds :
            (Clone(h, "W") \/ (h.tag = "W" /\ Drop(h)))
                => listeners' = listeners]_vars

\* C6: constructing with marker RW and id i adds one to the count of i in
\* the cell's registry, whose callback is the updater of i, and yields a
\* handle of id Some(i); with marker W the registry stays and the handle
\* has id None; with marker () there is no handle and nothing changes.
C6_Construction ==
    [][\A c \in Cells, i \in Ids, B \in Flags :
          (StructInit(c, i, B) \/ (B # "none" /\ \E t \in Vals : Use(c, i, B, t)))
          => LET made == IF B = "RW" THEN Shared(c, i, "RW")
                         ELSE Shared(c, None, "W")
             IN  /\ B = "RW" =>
                       /\ DOMAIN listeners'[c] = DOMAIN listeners[c] \cup {i}
                       /\ listeners'[c][i].cb = Updater(i)
                       /\ listeners'[c][i].count =
                            IF i \in DOMAIN listeners[c]
                            THEN listeners[c][i].count + 1 ELSE 1
                       /\ \A k \in DOMAIN listeners[c] \ {i} :
                            listeners'[c][k] = listeners[c][k]
                 /\ B # "RW" => listeners'[c] = listeners[c]
                 /\ B # "none" => handles' = [handles EXCEPT ![made] = @ + 1]
                 /\ B = "none" => handles' = handles
                 /\ \A d \in Cells \ {c} : listeners'[d] = listeners[d]]_vars

\* cell c has the RW handle of i, registered once with the updater of i,
\* and a W handle of id None next to it; nothing else was ever registered
C6_Witness ==
    \E c \in Cells, i \in Ids :
        /\ handles[Shared(c, i, "RW")] = 1
        /\ handles[Shared(c, None, "W")] = 1
        /\ DOMAIN listeners[c] = {i}
        /\ listeners[c][i] = [count |-> 1, cb |-> Updater(i)]
        /\ net[c][i] = 1
        /\ removed = {}

\* C7: cloning a handle of id Some(i) adds exactly one to the count of i in
\* its cell's registry and changes nothing else there; cloning a handle of
\* id None leaves every registry as it was; the clone has the same id.
C7_Clone ==
    [][\A h \in HandleKinds, B \in {"W", "RW"} :
          Clone(h, B) =>
              /\ handles' = [handles EXCEPT ![Shared(h.cell, h.id, B)] = @ + 1]
              /\ IF h.id # None
                 THEN /\ h.id \in DOMAIN listeners[h.cell]
                      /\ listeners' =
                           [listeners EXCEPT ![h.cell][h.id].count = @ + 1]
                 ELSE listeners' = listeners]_vars

\* the RW handle of i was cloned: the clone lives next to it and the count
\* of i is 2
C7_Witness ==
    \E c \in Cells, i \in Ids :
        /\ handles[Shared(c, i, "RW")] = 1
        /\ handles[Shared(c, i, "W")] = 1
        /\ i \in DOMAIN listeners[c]
        /\ listeners[c][i].count = 2

C9_CountAtLeastOne ==
    /\ \A c \in Cells :
          \A i \in DOMAIN listeners[c] : listeners[c][i].count >= 1
    /\ \A c \in Cells : notified(listeners[c]) = DOMAIN listeners[c]
    /\ ~underflow

\* drop_listener(i) has just taken the last count of i and its entry is
\* gone, while the entry of j stays with a count of 2
C9_Witness ==
    \E i \in Ids, j \in Ids :
        /\ lastOp = Op("drop_listener", i)
        /\ <<TheLink, i>> \in removed
        /\ i \notin DOMAIN listeners[TheLink]
        /\ j \in DOMAIN listeners[TheLink]
        /\ listeners[TheLink][j].count = 2

\* C10: drop_listener on an id that has no entry changes nothing in the
\* registry and underflows nothing.
C10_DropAbsent ==
    [][\A i \in Ids :
          (LinkDropListener(TheLink, i) /\ i \notin DOMAIN listeners[TheLink])
              => /\ listeners' = listeners
                 /\ underflow' = underflow
                 /\ ~underflow']_vars

\* drop_listener(i) has just been called on a registry that never held i
\* and holds j
C10_Witness ==
    \E i \in Ids, j \in Ids :
        /\ lastOp = Op("drop_listener", i)
        /\ <<TheLink, i>> \notin removed
        /\ i \notin DOMAIN listeners[TheLink]
        /\ j \in DOMAIN listeners[TheLink]

\* the callbacks a needs_update on registry reg runs: one run for each id
\* that has an entry
OncePerEntry(reg) == [i \in Ids |-> IF i \in DOMAIN reg THEN 1 ELSE 0]
NoRun == [i \in Ids |-> 0]

\* C11: write_silent stores its value and runs no callback, whatever the
\* registry holds, and never takes the registry lock; write runs the
\* callback of each registered id exactly once and then stores, also when
\* the same thread's previous call was a write_silent.
C11_SilentRunsNone ==
    [][\A t \in Workers :
          /\ frame[t].op = "write_silent" =>
                /\ frame[t].ran = NoRun
                /\ frame[t].at \in {"store", "idle"}
                /\ t \notin reglock[TheLink].r
          /\ (NeedsUpdateUnlock(t) /\ frame[t].op = "write") =>
                frame[t].ran = OncePerEntry(listeners[TheLink])
          /\ (Store(t) /\ frame[t].op \in {"write", "write_silent"}) =>
                /\ value'[TheLink] = frame[t].arg
                /\ listeners' = listeners
                /\ \A i \in Ids : frame[t].ran[i] <= 1]_vars

\* a worker whose previous call was write_silent is in write: both
\* registered ids were called once each and the store is next
C11_Witness ==
    \E t \in Workers :
        /\ frame[t].op = "write"
        /\ frame[t].silentBefore
        /\ frame[t].at = "store"
        /\ DOMAIN listeners[TheLink] = Ids
        /\ frame[t].ran = [i \in Ids |-> 1]

\* the value a set / set_with in frame f asks for when the cell holds x
Wanted(f, x) == IF f.op = "set" THEN f.arg ELSE Apply(f.f, x)

\* C12: when one thread calls alone, set(v) on a cell that holds v, and
\* set_with(f) with f(current) = current, return at the test: the value
\* stays and no callback runs; with a different value the call goes on,
\* runs the callback of each registered id exactly once and stores v.
C12_SetSequential ==
    [][LET t == Alone
           x == value[TheLink]
       IN  /\ (SetCheck(t) \/ SetWithCheck(t)) =>
                /\ value' = value
                /\ frame'[t].ran = NoRun
                /\ frame'[t].at = "idle" <=> Wanted(frame'[t], x) = x
                /\ frame'[t].at # "idle" =>
                        frame'[t].at = "needs_update" /\ frame'[t].upd = Wanted(frame'[t], x)
           /\ (Store(t) /\ frame[t].op \in {"set", "set_with"}) =>
                /\ value'[TheLink] = Wanted(frame[t], x)
                /\ value'[TheLink] # x
                /\ frame[t].ran = OncePerEntry(listeners[TheLink])]_vars

\* set(v) is about to store v in a cell that holds another value, after the
\* callback of the one registered id ran once
C12_Witness ==
    LET f == frame[Alone]
    IN  /\ f.op = "set"
        /\ f.at = "store"
        /\ f.arg # value[TheLink]
        /\ DOMAIN listeners[TheLink] # {}
        /\ f.ran = OncePerEntry(listeners[TheLink])

\* C13: under any interleaving of set / set_with calls of several threads
\* on one cell, a call notifies only if it changes the value: a call whose
\* store leaves the value as it was just before has run no callback.
\* The test and the store are two critical sections.
C13_NotifiesIffChanged ==
    [][\A t \in Workers :
          (Store(t) /\ frame[t].op \in {"set", "set_with"}
                /\ value'[TheLink] = value[TheLink])
              => frame[t].ran = NoRun]_vars

\* C14: the value set_with(f) stores is f of the value the cell holds just
\* before the store, also when other threads write the cell meanwhile.
\* prev is dropped before write takes the write lock.
C14_NoLostUpdate ==
    [][\A t \in Workers :
          (Store(t) /\ frame[t].op = "set_with")
              => value'[TheLink] = Apply(frame[t].f, value[TheLink])]_vars

\* C15: while a thread is in a callback body inside needs_update, it does
\* not hold the registry lock, so that a drop_listener or add_listener of
\* another thread on the cell can take the lock without waiting for the
\* callback to return.  The read guard of the registry lives as long as the
\* for loop.
C15_DropNeverWaits ==
    \A t \in Workers :
        frame[t].at = "body" =>
            /\ t \notin reglock[TheLink].r
            /\ \A u \in Workers \ {t} :
                   (frame[u].at = "idle" /\ reglock[TheLink].w = None)
                       => reg_write_free(TheLink)

\* worker t is inside Link::needs_update, between or in callbacks
Notifying(t) == frame[t].at \in {"iterate", "body"}

\* C16: while write, set or set_with on the cell is running its listeners,
\* the notifying thread holds neither the write guard nor a read guard of
\* the value; a listener that reads the cell takes the read lock as soon as
\* no other thread holds the write guard.
C16_NotifyHoldsNoValueLock ==
    \A t \in Workers :
        /\ Notifying(t) =>
              /\ guard[TheLink] # t
              /\ t \notin readers[TheLink]
        /\ (frame[t].at = "body" /\ guard[TheLink] = None) =>
              ENABLED ListenerReturns(t, TRUE)

\* inside a write, a listener has read the cell and returned, and the next
\* one is running
C16_Witness ==
    \E t \in Workers :
        /\ frame[t].op = "write"
        /\ frame[t].at = "body"
        /\ frame[t].got = {value[TheLink]}
        /\ \E k \in Ids : frame[t].ran[k] = 1

\* C17: the value and the registry have locks of their own.  read and
\* write_silent hold only the value lock, add_listener, drop_listener and
\* needs_update only the registry lock; whether a call can take its lock
\* depends on that lock alone: a guard of the value never keeps a thread
\* from add_listener, drop_listener or needs_update, and a thread inside
\* add_listener or drop_listener never keeps another from reading.
C17_IndependentLocks ==
    \A t \in Workers :
        /\ t \in readers[TheLink] <=> frame[t].at = "release"
        /\ guard[TheLink] = t <=> frame[t].at = "store"
        /\ t \in reglock[TheLink].r <=> Notifying(t)
        /\ reglock[TheLink].w = t <=> frame[t].at \in {"add_listener", "drop_listener"}
        /\ frame[t].at = "idle" =>
              /\ ENABLED Borrow(t) <=> guard[TheLink] = None
              /\ ENABLED BorrowMut(t) <=>
                    (guard[TheLink] = None /\ readers[TheLink] = {})
              /\ ENABLED NeedsUpdateLock(t) <=> reglock[TheLink].w = None
              /\ ENABLED RegWrite(t) <=>
                    (reglock[TheLink].w = None /\ reglock[TheLink].r = {})

\* one thread holds the write guard of the value while another is inside
\* add_listener or drop_listener, and a third call could start notifying
C17_Witness ==
    \E t \in Workers, u \in Workers :
        /\ guard[TheLink] = t
        /\ reglock[TheLink].w = u
        /\ t # u

\* C18: on the value of a cell at most one write guard exists, no read
\* guard exists next to a write guard, and read guards may be several; a
\* store is made by the holder of the write guard, so stores follow one
\* another and the cell holds what the last holder stored.
C18_ValueExclusion ==
    [][LET W == {t \in Workers : frame[t].at = "store"}
           R == {t \in Workers : frame[t].at = "release"}
       IN  /\ Cardinality(W) <= 1
           /\ W # {} => R = {}
           /\ readers[TheLink] = R
           /\ W = {t \in Workers : guard[TheLink] = t}
           /\ \A t \in Workers :
                 Store(t) =>
                    /\ W = {t}
                    /\ value'[TheLink] = frame[t].upd
                    /\ guard'[TheLink] = None
           /\ value' # value => \E t \in W : Store(t)]_vars

\* every worker holds a read guard of the value at once
C18_Witness ==
    /\ readers[TheLink] = Workers
    /\ guard[TheLink] = None
    /\ \A t \in Workers : frame[t].at = "release"

\* C19: a static is filled at most once.  Whatever the interleaving of
\* the accessors (use_rw, use_w, share of a shareable! global, get_static
\* of a static record), the initialiser of a global runs at most once, the
\* stored instance is never replaced, and every accessor obtains the
\* stored instance.
C19_InitOnce ==
    [][\A g \in Globals :
          /\ built[g] <= 1
          /\ built'[g] <= 1
          /\ slot[g] # None => (slot'[g] = slot[g] /\ built'[g] = built[g])
          /\ \A t \in Workers :
                (frame'[t].at # "idle" /\ frame'[t].arg = g) =>
                    /\ frame'[t].got \in {{}, {slot'[g]}}
                    /\ frame'[t].got # {} => slot'[g] # None]_vars

\* an accessor found the cell stored in the static and holds it, next to
\* the handle another worker got from use_rw on the same global
C19_Witness ==
    \E t \in Workers, u \in Workers, g \in Cells :
        /\ t # u
        /\ frame[t].at = "unlock" /\ frame[t].arg = g
        /\ frame[t].f = "clone"
        /\ frame[t].got = {slot[g]}
        /\ built[g] = 1
        /\ CountOf(listeners[g], u) > 0

\* C20: CombineFlag is defined on every pair of markers and is a join:
\* commutative, associative, idempotent, with () as identity, W with W
\* giving W, and RW absorbing.
C20_CombineIsJoin ==
    /\ fl.f # "none" => fl.out \in Flags
    /\ fl.f = "a_b" =>
          /\ fl.out = CombineFlag(fl.b, fl.a)
          /\ fl.a = fl.b => fl.out = fl.a
          /\ fl.a = "none" => fl.out = fl.b
          /\ fl.b = "none" => fl.out = fl.a
          /\ (fl.a = "W" /\ fl.b = "W") => fl.out = "W"
          /\ (fl.a = "RW" \/ fl.b = "RW") => fl.out = "RW"
    /\ fl.f = "ab_c" => fl.out = CombineFlag(fl.a, CombineFlag(fl.b, fl.c))
    /\ fl.f = "a_bc" => fl.out = CombineFlag(CombineFlag(fl.a, fl.b), fl.c)

\* W combined with (), and the result with RW
C20_Witness ==
    /\ fl.f = "ab_c"
    /\ fl.a = "W" /\ fl.b = "none" /\ fl.c = "RW"
    /\ fl.out = "RW"

\* C21: implies(a, b) holds exactly when b is (), or a = b, or a is RW:
\* for the six pairs ((),()), (W,()), (RW,()), (W,W), (RW,W), (RW,RW),
\* and not for ((),W), ((),RW), (W,RW).
C21_ImpliesPairs ==
    fl.f = "a_implies_b" =>
        /\ fl.holds <=> (fl.b = "none" \/ fl.a = fl.b \/ fl.a = "RW")
        /\ fl.holds <=>
              <<fl.a, fl.b>> \in {<<"none", "none">>, <<"W", "none">>,
                                  <<"RW", "none">>, <<"W", "W">>,
                                  <<"RW", "W">>, <<"RW", "RW">>}
        /\ <<fl.a, fl.b>> \in {<<"none", "W">>, <<"none", "RW">>, <<"W", "RW">>}
              => ~fl.holds

\* W does not imply RW
C21_Witness ==
    /\ fl.f = "a_implies_b"
    /\ fl.a = "W" /\ fl.b = "RW"
    /\ ~fl.holds

\* C30: the order and the join agree.  implies(a, b) holds iff
\* combine(a, b) = a; implies is reflexive, antisymmetric and transitive;
\* and combine(a, b) implies a and implies b.
C30_OrderAgreesWithJoin ==
    /\ fl.f = "a_implies_b" =>
          /\ fl.holds <=> (CombineFlag(fl.a, fl.b) = fl.a)
          /\ fl.a = fl.b => fl.holds
          /\ (fl.holds /\ ImpliesFlag(fl.b, fl.a)) => fl.a = fl.b
          /\ (fl.holds /\ ImpliesFlag(fl.b, fl.c)) => ImpliesFlag(fl.a, fl.c)
    /\ fl.f = "ab_implies" =>
          /\ fl.out = CombineFlag(fl.a, fl.b)
          /\ fl.holds

\* the action (W, RW)-combined on a field is RW and implies both W and RW
C30_Witness ==
    /\ fl.f = "ab_implies"
    /\ fl.a = "W" /\ fl.b = "RW"
    /\ fl.out = "RW"
    /\ fl.holds

RECURSIVE Mentions(_)
\* the field: flag entries an action is made of, named actions unfolded
Mentions(A) ==
    CASE A.k = "field" -> {A}
      [] A.k = "named" -> Mentions(Body(A.x))
      [] A.k = "pair" -> Mentions(A.x) \cup Mentions(A.y)
      [] OTHER -> {}

\* the join of a set of flags in the order () < W < RW
JoinAll(S) ==
    IF "RW" \in S THEN "RW" ELSE IF "W" \in S THEN "W" ELSE "none"

\* C22: the resolved capability of a field is the join of the
\* capabilities of the entries that mention it, through tuples and named
\* actions, and () when none does; F = { A, a: RW } with
\* A = { a: W, b: RW } resolves to a: RW, b: RW.
C22_FieldResolution ==
    /\ ty.fn = "FieldFlag" =>
          \A f \in Cells :
              ty.out[f] =
                JoinAll({e.y : e \in {m \in Mentions(Pair(ty.a, ty.b)) : m.x = f}})
    /\ (ty.fn = "FieldFlag" /\ ty.a = Named("F") /\ ty.b = Unit) =>
          (ty.out[1] = "RW" /\ ty.out[NumCells] = "RW")

\* the action F of the example, resolved
C22_Witness ==
    /\ ty.fn = "FieldFlag"
    /\ ty.a = Named("F") /\ ty.b = Unit
    /\ ty.out[1] = "RW" /\ ty.out[NumCells] = "RW"

RECURSIVE Entries(_)
\* the entries of an action list, in order
Entries(A) ==
    CASE A.k = "unit" -> <<>>
      [] A.k = "pair" -> Entries(A.x) \o Entries(A.y)
      [] OTHER -> <<A>>

\* the marker of an entry: which field, sub-record or named action
MarkerOf(e) == <<e.k, e.x>>
MarkersOf(A) == {MarkerOf(Entries(A)[i]) : i \in DOMAIN Entries(A)}

\* an action list that simplifying with the empty action returns unchanged
IsSimplified(A) == Simplify(Pair(A, Unit)) = A

\* C29: for two simplified action lists a and b on one sub-record,
\* Simplify<(a, b)> is a list in which every marker of a or b appears
\* exactly once and no other, a field marker with the join of the flags it
\* had in a and in b, and the list is itself simplified.
C29_SimplifyJoins ==
    (ty.fn = "Simplify" /\ IsSimplified(ty.a) /\ IsSimplified(ty.b)) =>
        LET E == Entries(ty.out)
            In == Entries(ty.a) \o Entries(ty.b)
        IN  /\ ~Failed(ty.out)
            /\ \A i \in DOMAIN E : \A j \in DOMAIN E :
                  MarkerOf(E[i]) = MarkerOf(E[j]) => i = j
            /\ MarkersOf(ty.out) = MarkersOf(ty.a) \cup MarkersOf(ty.b)
            /\ \A i \in DOMAIN E :
                  E[i].k = "field" =>
                     E[i].y = JoinAll({In[j].y : j \in {n \in DOMAIN In :
                                          MarkerOf(In[n]) = MarkerOf(E[i])}})
            /\ IsSimplified(ty.out)

RECURSIVE SubEntries(_, _)
\* the action lists an action gives for sub-record u, named actions unfolded
SubEntries(A, u) ==
    CASE A.k = "sub" -> IF A.x = u THEN {A.y} ELSE {}
      [] A.k = "named" -> SubEntries(Body(A.x), u)
      [] A.k = "pair" -> SubEntries(A.x, u) \cup SubEntries(A.y, u)
      [] OTHER -> {}

\* the capability an action asks for on the field at path p: the join of
\* the entries that mention the field, in the action or, for a field of a
\* sub-record, in the action lists given for the sub-record
Cap(A, p) ==
    LET M == IF p.u = "top" THEN Mentions(A)
             ELSE UNION {Mentions(T) : T \in SubEntries(A, p.u)}
    IN  JoinAll({e.y : e \in {m \in M : m.x = p.f}})

\* C23: use_ with subscriber id s makes, for every field of the record
\* and of its sub-records, a handle iff the capability of the field is
\* not (); it raises the count of s by one in the registry of each field
\* whose capability is RW and changes no other count; dropping the view
\* right after puts every registry back as it was before use_.
C23_ViewConstruction ==
    [][/\ \A v \in ViewIds, s \in Ids, A \in ViewActions :
            UseView(v, s, A) =>
                \A p \in Paths :
                    /\ IsNone(views'[v].fields[p]) <=> (Cap(A, p) = "none")
                    /\ \A i \in Ids :
                          CountOf(content'[p].listeners, i) =
                             CountOf(content[p].listeners, i)
                               + (IF i = s /\ Cap(A, p) = "RW" THEN 1 ELSE 0)
       /\ \A v \in ViewIds :
            (DropView(v) /\ vlast.used = v) => Registries' = vlast.before]_vars

\* a view was made beside another of the same subscriber: it has a handle
\* on a field of the sub-record with the count at 2, and none on some field
C23_Witness ==
    /\ vlast.op = "use_"
    /\ \E p \in Paths, q \in Paths :
          /\ p.u # "top"
          /\ views[vlast.v].fields[p].id # None
          /\ CountOf(content[p].listeners, views[vlast.v].id) = 2
          /\ IsNone(views[vlast.v].fields[q])

\* C24: no accessor panics.  In every view, however it was made (use_,
\* share) and reinterpreted (with_actions, as_ref), each field whose flag
\* in the view's type is W or RW holds Some handle.
C24_AccessorsNeverPanic ==
    /\ ~panicked
    /\ \A v \in ViewIds, p \in Paths :
          (views[v].live /\ Resolved(views[v].seen, p) \in {"W", "RW"}) =>
              ~IsNone(views[v].fields[p])

\* an accessor of a sub-record field returned through a reinterpreted view
C24_Witness ==
    /\ vlast.op = "field"
    /\ ~IsNone(vlast.h)
    /\ vlast.h.cell.u # "top"
    /\ views[vlast.v].seen # views[vlast.v].act

\* two fields of views hold the same handle, or both None
SameHandle(h, g) ==
    /\ IsNone(h) <=> IsNone(g)
    /\ ~IsNone(h) => (h.cell = g.cell /\ h.id = g.id)

\* C25: with_actions / as_ref change no registry, no value and no field
\* of any view; the handle an accessor returns through the reinterpreted
\* view is the one the view holds for that field: same cell, same id.
C25_ReinterpretIsFrame ==
    [][/\ \A v \in ViewIds, B \in ViewActions :
            WithActions(v, B) =>
                /\ content' = content
                /\ \A w \in ViewIds, p \in Paths :
                      /\ views'[w].live = views[w].live
                      /\ SameHandle(views'[w].fields[p], views[w].fields[p])
       /\ \A v \in ViewIds, p \in Paths :
            Accessor(v, p) =>
                /\ content' = content
                /\ views' = views
                /\ ~IsNone(views[v].fields[p]) =>
                      /\ vlast'.h.cell = p
                      /\ vlast'.h.cell = views[v].fields[p].cell
                      /\ vlast'.h.id = views[v].fields[p].id]_vars

\* the RW handle of a field, returned as a W handle through a narrowed view
C25_Witness ==
    /\ vlast.op = "field"
    /\ vlast.h.id # None
    /\ vlast.h.tag = "W"
    /\ views[vlast.v].fields[vlast.h.cell].tag = "RW"
    /\ views[vlast.v].seen # views[vlast.v].act

\* C26: ptr_eq (and ==, and == of ListEntry) is true exactly when the two
\* pointers point at the same location, whatever the values there: a clone is
\* ptr_eq to its original; two pointers of one owner mapped by the same
\* functions are ptr_eq; two pointers made independently are not, also when
\* they hold equal values; and a write changes no ptr_eq result.
C26_PointerIdentity ==
    /\ [](\A p \in PtrIds, q \in PtrIds :
            (ptr[p].live /\ ptr[q].live /\ ptr[p].of = ptr[q].of) =>
                /\ PtrEq(p, q) <=> (Target(ptr[p]) = Target(ptr[q]))
                /\ ListEntry_eq(ptr[p], ptr[q]) <=>
                      (Target(ptr[p]) = Target(ptr[q]))
                /\ (ptr[p].outer = ptr[q].outer /\ ptr[p].hist = ptr[q].hist)
                      => PtrEq(p, q)
                /\ (ptr[p].hist = <<>> /\ ptr[q].hist = <<>>
                       /\ ptr[p].outer # ptr[q].outer) => ~PtrEq(p, q))
    /\ [][/\ \A p \in PtrIds, q \in PtrIds :
                ArcMap_clone(p, q) => PtrEq(p, q)'
          /\ (\E r \in PtrIds, v \in Vals : ArcWrite(r, v)) =>
                \A p \in PtrIds, q \in PtrIds :
                    (ptr[p].live /\ ptr[q].live /\ ptr[p].of = ptr[q].of) =>
                        (PtrEq(p, q)' <=> PtrEq(p, q))]_vars

\* a pointer, its clone, and a pointer made independently that holds an
\* equal value
C26_Witness ==
    \E p \in PtrIds, q \in PtrIds, r \in PtrIds :
        /\ p # q /\ p # r /\ q # r
        /\ ptr[p].live /\ ptr[q].live /\ ptr[r].live
        /\ ptr[p].hist = <<>> /\ ptr[q].hist = <<>> /\ ptr[r].hist = <<>>
        /\ ptr[p].outer = ptr[q].outer /\ PtrEq(p, q)
        /\ ptr[r].outer # ptr[p].outer
        /\ Deref(ptr[r]) = Deref(ptr[p])
        /\ ~PtrEq(p, r)

\* C27 (as amended): ArcMap::new gives the owner a count of 1 and ArcMap::from
\* takes over the reference of the Arc it is given, leaving the count as the
\* caller made it; clone adds one, map leaves it, drop takes one; the owner is
\* freed exactly when the count reaches 0, and every live ArcMap, a mapped one
\* held after the original was dropped too, refers to an owner not freed.
C27_OwnerLifetime ==
    /\ [](/\ \A o \in OwnerIds :
               /\ owner[o].alloc <=> owner[o].count > 0
               /\ owner[o].count = owner[o].held +
                     Cardinality({p \in PtrIds :
                                    ptr[p].live /\ ptr[p].outer = o})
          /\ \A p \in PtrIds :
               ptr[p].live =>
                   /\ owner[ptr[p].outer].alloc
                   /\ Valid(ptr[p].inner))
    /\ [][/\ \A p \in PtrIds, va \in Vals :
                ArcMap_new(p, va) => owner'[ptr'[p].outer].count = 1
          /\ \A p \in PtrIds, k \in 0..MaxHeld, va \in Vals :
                ArcMap_from_shared(p, k, va) =>
                    owner'[ptr'[p].outer].count = 1 + k
          /\ \A p \in PtrIds, o \in OwnerIds :
                ArcMap_from_kept(p, o) => owner'[o].count = owner[o].count
          /\ \A p \in PtrIds, q \in PtrIds :
                ArcMap_clone(p, q) =>
                    owner'[ptr[p].outer].count = owner[ptr[p].outer].count + 1
          /\ \A p \in PtrIds, f \in Projs :
                ArcMap_map(p, f) =>
                    /\ ptr'[p].outer = ptr[p].outer
                    /\ owner' = owner
          /\ \A p \in PtrIds :
                ArcMap_drop(p) =>
                    owner'[ptr[p].outer].count = owner[ptr[p].outer].count - 1
          /\ \A o \in OwnerIds :
                (owner[o].alloc /\ ~owner'[o].alloc) <=>
                    (owner[o].count > 0 /\ owner'[o].count = 0)]_vars

\* a pointer to field a of an owner that no other pointer and no Arc of the
\* caller refers to: the pointer it was mapped from is gone
C27_Witness ==
    \E p \in PtrIds :
        /\ ptr[p].live
        /\ ptr[p].hist = <<"a">>
        /\ owner[ptr[p].outer].count = 1
        /\ owner[ptr[p].outer].held = 0
        /\ \A q \in PtrIds : q # p => ~ptr[q].live

\* C27 (as stated): ArcMap::new and ArcMap::from give the owner a count of 1;
\* clone adds one, map leaves it, drop takes one; the owner is freed exactly
\* when the count reaches 0, and every live ArcMap refers to an owner not
\* freed.
C27_FromGivesCountOne ==
    /\ [](/\ \A o \in OwnerIds : owner[o].alloc <=> owner[o].count > 0
          /\ \A p \in PtrIds :
               ptr[p].live =>
                   /\ owner[ptr[p].outer].alloc
                   /\ Valid(ptr[p].inner))
    /\ [][/\ \A p \in PtrIds, va \in Vals :
                ArcMap_new(p, va) => owner'[ptr'[p].outer].count = 1
          /\ \A p \in PtrIds, k \in 0..MaxHeld, va \in Vals :
                ArcMap_from_shared(p, k, va) =>
                    owner'[ptr'[p].outer].count = 1
          /\ \A p \in PtrIds, o \in OwnerIds :
                ArcMap_from_kept(p, o) => owner'[o].count = 1
          /\ \A p \in PtrIds, q \in PtrIds :
                ArcMap_clone(p, q) =>
                    owner'[ptr[p].outer].count = owner[ptr[p].outer].count + 1
          /\ \A p \in PtrIds, f \in Projs :
                ArcMap_map(p, f) => owner' = owner
          /\ \A p \in PtrIds :
                ArcMap_drop(p) =>
                    owner'[ptr[p].outer].count = owner[ptr[p].outer].count - 1
          /\ \A o \in OwnerIds :
                (owner[o].alloc /\ ~owner'[o].alloc) <=>
                    (owner[o].count > 0 /\ owner'[o].count = 0)]_vars

\* C28: List::fill and List::fill_with replace the entries: afterwards every
\* position holds a new cell of its own with the given value and an empty
\* registry, that nothing else refers to; the length is the same; no listener
\* is invoked; and the cell of every previous entry that a ListEntry or a
\* handle still refers to keeps its value and its registry, and is no longer
\* in the list.
C28_FillReplaces ==
    [][/\ \A vs \in [1..Len(list) -> Vals] :
            ListFillWith(vs) =>
                /\ Len(list') = Len(list)
                /\ \A i \in 1..Len(list) :
                      /\ lcells'[list'[i]] =
                            [alloc |-> TRUE, count |-> 1,
                             link |-> Link_new(vs[i])]
                      /\ lkept'[list'[i]] = NoKept
                      /\ \A j \in 1..Len(list) :
                            j # i => list'[j] # list'[i]
                /\ lfired' = {}
                /\ \A i \in 1..Len(list) :
                      lkept[list[i]] # NoKept =>
                          /\ lcells'[list[i]].alloc
                          /\ lcells'[list[i]].link = lcells[list[i]].link
                          /\ lcells'[list[i]].count =
                                lcells[list[i]].count - 1
                          /\ lkept'[list[i]] = lkept[list[i]]
                          /\ \A j \in 1..Len(list) : list'[j] # list[i]
       /\ \A t \in Vals :
            ListFill(t) =>
                \A i \in 1..Len(list) : lcells'[list'[i]].link.value = t]_vars

\* a filled list of two, and a cell that left the list with the fill: a scope
\* is still registered on it and it holds another value than the list
C28_Witness ==
    /\ Len(list) = 2
    /\ \E c \in LCells :
          /\ lcells[c].alloc
          /\ \A i \in 1..Len(list) : list[i] # c
          /\ lkept[c].rw # {}
          /\ lcells[c].link.listeners # EmptyMap
          /\ \A i \in 1..Len(list) :
                /\ lcells[list[i]].link.value # lcells[c].link.value
                /\ lcells[list[i]].link.listeners = EmptyMap

\* C31: the callback stored for id s in a cell is the one given by the
\* registration that made the entry: a registration for an id that has an
\* entry, with the same callback, another scope's or the no-op of a clone,
\* leaves the stored callback, and no step changes the callback of an entry
\* that stays; the no-op a clone passes is never a stored callback.
C31_CallbackRetention ==
    /\ [](\A c \in Cells, s \in Ids :
            /\ s \in DOMAIN listeners[c] =>
                  /\ listeners[c][s].cb # Noop
                  /\ listeners[c][s].cb = Updater(s)
            /\ \A f \in {Noop} \cup {Updater(j) : j \in Ids} :
                  add_listener(listeners[c], s, f)[s].cb =
                      IF s \in DOMAIN listeners[c]
                      THEN listeners[c][s].cb
                      ELSE f)
    /\ [][\A c \in Cells, s \in Ids :
             (s \in DOMAIN listeners[c] /\ s \in DOMAIN listeners'[c]) =>
                 listeners'[c][s].cb = listeners[c][s].cb]_vars

\* a handle that only a clone makes (marker W, subscribed) is live: the
\* clone registered its id again, and the scope's callback is still stored
C31_Witness ==
    \E c \in Cells, s \in Ids :
        /\ handles[Shared(c, s, "W")] > 0
        /\ s \in DOMAIN listeners[c]
        /\ listeners[c][s].count >= 2
        /\ listeners[c][s].cb = Updater(s)

TakenOut == {list[i] : i \in 1..Len(list)} \ {list'[i] : i \in 1..Len(list')}
RegisteredOn(c) == DOMAIN lcells[c].link.listeners = lkept[c].rw
C33_TakenHandle ==
    /\ [](\A c \in LCells : lcells[c].alloc => RegisteredOn(c))
    /\ [][\A c \in TakenOut :
             /\ lkept'[c] = [lkept[c] EXCEPT !.w = @ + 1]
             /\ lcells'[c] = lcells[c]
             /\ \A d \in LCells \ TakenOut : lkept'[d] = lkept[d]]_vars
    /\ [][\A c \in LCells, t \in Vals :
             ListHandleWrite(c, t) =>
                 /\ lfired' = lkept[c].rw
                 /\ lcells'[c].link.value = t
                 /\ lcells'[c].link.listeners = lcells[c].link.listeners]_vars
\* a cell that left the list, with a ListEntry clone kept, a W handle, and a
\* subscriber that the latest write through the handle invoked
C33_Witness ==
    \E c \in LCells :
        /\ lcells[c].alloc
        /\ c \notin {list[i] : i \in 1..Len(list)}
        /\ lkept[c].w > 0
        /\ lkept[c].entry > 0
        /\ lkept[c].rw # {}
        /\ lfired = lkept[c].rw

\* C34: sharing without a hook (Struct::share, ArcMap::share) happens only
\* with actions whose every field, sub-records included, resolves to none
\* or W; every handle it makes is a W handle with id None on the field's own
\* link; and no listener registry changes when the view is made, nor when a
\* view made this way is dropped.
C34_HooklessShare ==
    /\ [](\A v \in ViewIds : views[v].live /\ views[v].id = None =>
             \A p \in Paths : views[v].fields[p].id = None)
    /\ [][\A v \in ViewIds, A \in ViewActions :
             ShareView(v, A) =>
                 /\ \A p \in Paths :
                       /\ Resolved(A, p) \in {"none", "W"}
                       /\ views'[v].fields[p] =
                             IF Resolved(A, p) = "W" THEN Shared(p, None, "W")
                             ELSE NoField
                 /\ Registries' = Registries]_vars
    /\ [][\A v \in ViewIds :
             DropView(v) /\ views[v].id = None => Registries' = Registries]_vars
\* a view just made by share, with a W handle on a link that a scope is
\* registered on
C34_Witness ==
    /\ vlast.op = "share"
    /\ \E p \in Paths :
          /\ views[vlast.v].fields[p] = Shared(p, None, "W")
          /\ content[p].listeners # EmptyMap

\* C35: a record content built from an initialiser list has, for every field
\* and sub-record, the value of the first entry of the list that names it,
\* and its declared default (the one Content::default() gives) when no entry
\* names it; every entry's expression runs at most once.
FirstNaming(l, n) == l[CHOOSE i \in 1..Len(l) : l[i].n = n /\ \A j \in 1..(i - 1) : l[j].n # n]
Names(l) == {l[i].n : i \in 1..Len(l)}
SubWanted(l) == [x |-> IF "x" \in Names(l) THEN FirstNaming(l, "x").v ELSE finit.x]
C35_Initialisers ==
    ini.op = "from" =>
        /\ \A n \in InitFields :
              ini.out.c[n] = IF n \in Names(ini.list)
                             THEN FirstNaming(ini.list, n).v
                             ELSE Content_default[n]
        /\ ini.out.c.u = IF "u" \in Names(ini.list)
                         THEN SubWanted(FirstNaming(ini.list, "u").l)
                         ELSE Content_default.u
        /\ \A i \in 1..Len(ini.out.t) :
              /\ ini.out.t[i].runs <= 1
              /\ \A j \in 1..Len(ini.out.t[i].inner) :
                    ini.out.t[i].inner[j].runs <= 1

\* C36: two distinct marker names of at most as many bytes as the const
\* values of a marker have room for never get the same const values, and no
\* seg_str call leaves the width of a value.
ConstsOf(v) == [r \in DOMAIN v |-> v[r].c]
C36_Injective ==
    nm.op = "assoc" =>
        /\ Len(nm.a) <= SegBytes * NumSegs /\ Len(nm.b) <= SegBytes * NumSegs
              /\ nm.a # nm.b
              => ConstsOf(nm.va) # ConstsOf(nm.vb)
        /\ \A r \in 1..NumSegs : ~nm.va[r].over /\ ~nm.vb[r].over

\* C37: on every pair of markers the Implies bound of the flat-struct module
\* resolves exactly when ImpliesFlag does, and it resolves for every marker
\* with itself, none included.
C37_TablesAgree ==
    fl.f = "flat_a_implies_b" =>
        /\ fl.holds = ImpliesFlag(fl.a, fl.b)
        /\ fl.a = fl.b => fl.holds
====
